---- MODULE Spec2Model ----
(***************************************************************************)
(* Text overlay layout and animation filter compiler of video-composer     *)
(* (src/caption): VideoTextApplication.processVideo and the processors,    *)
(* style appliers and effects it drives.                                    *)
(*                                                                         *)
(* Representation of JavaScript values                                      *)
(*  - an object is a record; an optional field that is undefined is left    *)
(*    out of the record's domain;                                           *)
(*  - a text is a sequence of one-character strings, so that split, trim    *)
(*    and escaping work character by character; a built filter is a         *)
(*    sequence of option fragments [key, val], val being the characters     *)
(*    written after "key=";                                                 *)
(*  - times, pixel coordinates and the percentage fraction are decimal      *)
(*    numbers held in hundredths; font sizes are whole numbers.     *)
(*    Arithmetic is exact decimal arithmetic: the binary rounding noise of  *)
(*    IEEE doubles is not modelled.                                         *)
(***************************************************************************)
EXTENDS Integers, Sequences, FiniteSets, TLC

VARIABLES
    pc,            \* position of processVideo
    config,        \* this.config.textOverlays, the immutable input
    video,         \* what the probe will report for the input file
    fontFiles,     \* font types whose file exists under fonts/sources
    videoHeight,   \* videoDimensions.height once probed
    fontOverlays,  \* output of FontPathProcessor
    idx,           \* overlays consumed by MultiLineProcessor.handleProcess
    processed,     \* result array of MultiLineProcessor.handleProcess
    origin,        \* history: for each processed overlay, <<input index, rank>>
    textFilters,   \* textFilters built so far by styleManager.buildFilter
    vf,            \* the joined filter expression handed to ffmpeg
    ffmpegRuns,    \* number of runFFmpeg invocations
    warnings,      \* number of console.warn calls
    outcome,       \* "none", "success" or the reason of process.exit(1)
    effectInstances,  \* EffectFactory.effectInstances, the static cache
    fontInstances     \* FontFactory.fontInstances, the static cache

vars == <<pc, config, video, fontFiles, videoHeight, fontOverlays, idx,
          processed, origin, textFilters, vf, ffmpegRuns, warnings, outcome,
          effectInstances, fontInstances>>

(***************************************************************************)
(* Bounds of the explored input space.                                      *)
(***************************************************************************)
MaxTime == 2
MaxLine == 2
MaxElements == 3
MaxOverlays == 2


(***************************************************************************)
(* JavaScript helpers.                                                      *)
(***************************************************************************)
Has(o, k) == k \in DOMAIN o

\* { ...a, ...b }: keys of both, b wins.
Spread(a, b) ==
    [k \in DOMAIN a \cup DOMAIN b |-> IF k \in DOMAIN b THEN b[k] ELSE a[k]]

EmptyObject == [k \in {} |-> TRUE]

\* obj.k || {} for a nested object that may be undefined.
ObjectOrEmpty(o, k) == IF Has(o, k) THEN o[k] ELSE EmptyObject

\* Truthiness of o.k for a boolean field that may be missing.
Truthy(o, k) == Has(o, k) /\ o[k] = TRUE

RECURSIVE Concat(_)
Concat(ss) == IF ss = <<>> THEN "" ELSE Head(ss) \o Concat(Tail(ss))

RECURSIVE SumSeq(_)
SumSeq(s) == IF s = <<>> THEN 0 ELSE Head(s) + SumSeq(Tail(s))

Abs(n) == IF n < 0 THEN -n ELSE n

\* Number.prototype.toString of the decimal c/100.
NumStr(c) ==
    LET a == Abs(c)
        q == a \div 100
        r == a % 100
        frac == IF r = 0 THEN ""
                ELSE IF r % 10 = 0 THEN "." \o ToString(r \div 10)
                ELSE IF r < 10 THEN ".0" \o ToString(r)
                ELSE "." \o ToString(r)
    IN  (IF c < 0 THEN "-" ELSE "") \o ToString(q) \o frac

\* Math.round(num/den) for den > 0: the nearest integer, halves going up.
MathRound(num, den) == (2 * num + den) \div (2 * den)

(***************************************************************************)
(* Fonts: FontFactory.getFont and BaseFont.                                 *)
(***************************************************************************)
FontTypes == {"dm-serif-display-italic", "dm-serif-display-regular",
              "archivo-black", "cookie", "fjalla-one", "source-serif",
              "source-serif-italic"}

FontFile(fontType) ==
    CASE fontType = "dm-serif-display-italic"  -> "DMSerifDisplay-Italic.ttf"
      [] fontType = "dm-serif-display-regular" -> "DMSerifDisplay-Regular.ttf"
      [] fontType = "archivo-black"            -> "ArchivoBlack-Regular.ttf"
      [] fontType = "cookie"                   -> "Cookie-Regular.ttf"
      [] fontType = "fjalla-one"               -> "FjallaOne-Regular.ttf"
      [] fontType = "source-serif"             -> "SourceSerif4.ttf"
      [] fontType = "source-serif-italic"      -> "SourceSerif4-Italic.ttf"

getFullPath(fontType) == "sources/" \o FontFile(fontType)

\* new Fonts_X(): the instance of the class registered for a font type.
NewFont(fontType) == [type |-> fontType, path |-> FontFile(fontType)]

\* FontFactory.getFont for a registered type: the cached instance if there
\* is one, a new one otherwise.
getFont(instances, fontType) ==
    IF fontType \in DOMAIN instances THEN instances[fontType]
    ELSE NewFont(fontType)

\* The cache once getFont has been called for each of the given types.
CachedFonts(instances, types) ==
    [t \in DOMAIN instances \cup (types \cap FontTypes) |->
        IF t \in DOMAIN instances THEN instances[t] ELSE NewFont(t)]

\* FontFactory.getFont(type) succeeds and the instance's file exists.
FontResolves(fontType, files) == fontType \in FontTypes /\ fontType \in files

(***************************************************************************)
(* ValidationService.                                                       *)
(***************************************************************************)
\* Mutant: a validation without the timing check.
validateOverlay_NoTiming(overlay, files) ==
    IF ~FontResolves(overlay.fontFamily, files) THEN "UnresolvableFont"
    ELSE IF overlay.fontSize <= 0 THEN "InvalidFontSize"
    ELSE "ok"

\* The error validateOverlay stops on, "ok" if none.
validateOverlay(overlay, files) ==
    IF ~FontResolves(overlay.fontFamily, files) THEN "UnresolvableFont"
    ELSE IF overlay.startTime >= overlay.endTime THEN "InvalidTiming"
    ELSE IF overlay.fontSize <= 0 THEN "InvalidFontSize"
    ELSE "ok"

\* forEach overlay: the first error ends the process.
validateConfiguration(overlays, files) ==
    LET bad == {i \in 1..Len(overlays) : validateOverlay(overlays[i], files) # "ok"}
    IN  IF bad = {} THEN "ok"
        ELSE validateOverlay(overlays[CHOOSE i \in bad : \A j \in bad : i <= j], files)

\* The font types validateOverlay asked the factory for: those of the
\* overlays up to the first one that fails.
ValidatedFonts(overlays, files) ==
    LET bad == {i \in 1..Len(overlays) : validateOverlay(overlays[i], files) # "ok"}
    IN  {overlays[i].fontFamily :
         i \in {k \in 1..Len(overlays) : \A j \in bad : k <= j}}

(***************************************************************************)
(* FontPathProcessor.                                                       *)
(***************************************************************************)
FontPathProcessor(overlays) ==
    [i \in 1..Len(overlays) |->
        LET fontInstance == getFont(fontInstances, overlays[i].fontFamily)
        IN  Spread(overlays[i],
                   [fontPath |-> getFullPath(fontInstance.type),
                    fontInstance |-> fontInstance.type])]

(***************************************************************************)
(* MultiLineProcessor: the layout engine.                                   *)
(***************************************************************************)
lineSpacing == 120   \* 1.2, in hundredths

MultiLineProcessor_calculateFontSize(fontSize, height) ==
    IF fontSize <= 20 THEN MathRound(fontSize * height, 100) ELSE fontSize

\* overlay.position.y; undefined when the position has no such field.
PositionField(position, k) ==
    IF Has(position, k) THEN position[k] ELSE [t |-> "undefined"]

\* Mutant: the block starts at the declared centre instead of being centred
\* on it.
calculateStartingYForBlock_Top(originalY, totalHeight, height) ==
    IF originalY.t = "pct" THEN height * originalY.n
    ELSE IF originalY.t \in {"number", "numstr"} THEN originalY.n
    ELSE 50 * height

\* Result in hundredths of a pixel. A percentage "n%" is centred on
\* videoHeight * n/100, a number or numeric string on its value, anything
\* else on videoHeight / 2.
calculateStartingYForBlock(originalY, totalHeight, height) ==
    IF originalY.t = "pct"
    THEN height * originalY.n - totalHeight \div 2
    ELSE IF originalY.t \in {"number", "numstr"}
    THEN originalY.n - totalHeight \div 2
    ELSE 50 * height - totalHeight \div 2

\* text.split("\n")
RECURSIVE SplitFrom(_, _)
SplitFrom(text, cur) ==
    IF text = <<>> THEN <<cur>>
    ELSE IF Head(text) = "\n" THEN <<cur>> \o SplitFrom(Tail(text), <<>>)
    ELSE SplitFrom(Tail(text), Append(cur, Head(text)))

Split(text) == SplitFrom(text, <<>>)

WhiteSpace == {" ", "\t", "\r", "\n"}

\* String.prototype.trim
RECURSIVE TrimStart(_)
TrimStart(s) ==
    IF s # <<>> /\ Head(s) \in WhiteSpace THEN TrimStart(Tail(s)) ELSE s

RECURSIVE TrimEnd(_)
TrimEnd(s) ==
    IF s # <<>> /\ s[Len(s)] \in WhiteSpace
    THEN TrimEnd(SubSeq(s, 1, Len(s) - 1)) ELSE s

Trim(s) == TrimEnd(TrimStart(s))

\* The object built for line `index` (0-based) of a multi-line text.
LineOverlay(overlay, line, index, total, startingY, lineHeight) ==
    Spread(overlay,
           [text |-> Trim(line),
            position |->
                Spread(IF Has(overlay.position, "x")
                       THEN [x |-> overlay.position.x] ELSE EmptyObject,
                       [t |-> "object",
                        y |-> [t |-> "number", n |-> startingY + index * lineHeight]]),
            textAlign |-> IF Has(overlay, "textAlign") THEN overlay.textAlign
                          ELSE "center",
            _isMultiLine |-> TRUE,
            _originalText |-> overlay.text,
            _lineIndex |-> index,
            _totalLines |-> total])

\* Sorted keys of lineHeights, ascending.
RECURSIVE SortedLines(_)
SortedLines(lines) ==
    IF lines = {} THEN <<>>
    ELSE LET m == CHOOSE l \in lines : \A k \in lines : l <= k
         IN  <<m>> \o SortedLines(lines \ {m})

\* Math.max of the resolved font sizes of the elements on one line, times 1.2.
ElementFontSize(overlay, el) ==
    IF Has(el, "fontSize") THEN el.fontSize ELSE overlay.fontSize

\* Mutant: the height of a line taken from its first element only.
LineHeightOf_First(overlay, lineNum, height) ==
    LET first == CHOOSE i \in 1..Len(overlay.textElements) :
                     /\ overlay.textElements[i].line = lineNum
                     /\ \A j \in 1..(i - 1) : overlay.textElements[j].line # lineNum
    IN  MultiLineProcessor_calculateFontSize(
            ElementFontSize(overlay, overlay.textElements[first]), height)
        * lineSpacing

LineHeightOf(overlay, lineNum, height) ==
    LET sizes == {MultiLineProcessor_calculateFontSize(
                      ElementFontSize(overlay, overlay.textElements[i]), height) :
                  i \in {j \in 1..Len(overlay.textElements) :
                            overlay.textElements[j].line = lineNum}}
        maxFontSize == CHOOSE m \in sizes : \A s \in sizes : s <= m
    IN  maxFontSize * lineSpacing

\* The forEach over sortedLines: assign currentY, then advance it.
RECURSIVE WalkLines(_, _, _, _)
WalkLines(sorted, currentY, overlay, height) ==
    IF sorted = <<>> THEN EmptyObject
    ELSE Spread(Head(sorted) :> currentY,
                WalkLines(Tail(sorted),
                          currentY + LineHeightOf(overlay, Head(sorted), height),
                          overlay, height))

MergeTextAlign(overlay, element) ==
    IF Has(element, "textAlign") THEN element.textAlign
    ELSE IF Has(overlay, "textAlign") THEN overlay.textAlign
    ELSE "center"

\* Mutant: a nested object given by the element replaces the parent's.
MergeNested_Replace(overlay, element, k) ==
    IF Has(element, k) THEN element[k] ELSE ObjectOrEmpty(overlay, k)

MergeNested(overlay, element, k) ==
    Spread(ObjectOrEmpty(overlay, k), ObjectOrEmpty(element, k))

\* mergedElement of element `index` (0-based).
MergedElement(overlay, element, index, lineY) ==
    Spread(Spread(overlay, element),
           [text |-> element.text,
            position |->
                Spread(IF Has(overlay.position, "x")
                       THEN [x |-> overlay.position.x] ELSE EmptyObject,
                       [t |-> "object", y |-> [t |-> "number", n |-> lineY]]),
            textAlign |-> MergeTextAlign(overlay, element),
            textOutline |-> MergeNested(overlay, element, "textOutline"),
            textShadow |-> MergeNested(overlay, element, "textShadow"),
            textBox |-> MergeNested(overlay, element, "textBox"),
            animation |-> MergeNested(overlay, element, "animation"),
            _isTextElement |-> TRUE,
            _originalText |-> overlay.text,
            _elementIndex |-> index,
            _totalElements |-> Len(overlay.textElements),
            _lineIndex |-> element.line])

parseTextElements(overlay, height) ==
    LET elements == overlay.textElements
        lines == {elements[i].line : i \in 1..Len(elements)}
        sortedLines == SortedLines(lines)
        totalHeight ==
            SumSeq([i \in 1..Len(sortedLines) |->
                       LineHeightOf(overlay, sortedLines[i], height)])
        startingY == calculateStartingYForBlock(
                         PositionField(overlay.position, "y"), totalHeight, height)
        lineYPositions == WalkLines(sortedLines, startingY, overlay, height)
    IN  [i \in 1..Len(elements) |->
            MergedElement(overlay, elements[i], i - 1,
                          lineYPositions[elements[i].line])]

\* Mutant: no early return for a text of one line.
parseMultiLineText_AlwaysSplit(overlay, height) ==
    IF Has(overlay, "textElements") /\ Len(overlay.textElements) > 0
    THEN parseTextElements(overlay, height)
    ELSE LET lines == Split(overlay.text)
             lineHeight ==
                 MultiLineProcessor_calculateFontSize(overlay.fontSize, height)
                 * lineSpacing
             startingY == calculateStartingYForBlock(
                              PositionField(overlay.position, "y"),
                              lineHeight * Len(lines), height)
         IN  [i \in 1..Len(lines) |->
                 LineOverlay(overlay, lines[i], i - 1, Len(lines),
                             startingY, lineHeight)]

parseMultiLineText(overlay, height) ==
    IF Has(overlay, "textElements") /\ Len(overlay.textElements) > 0
    THEN parseTextElements(overlay, height)
    ELSE LET lines == Split(overlay.text)
         IN  IF Len(lines) = 1 THEN <<overlay>>
             ELSE LET fontSize == MultiLineProcessor_calculateFontSize(
                                      overlay.fontSize, height)
                      lineHeight == fontSize * lineSpacing
                      totalHeight == lineHeight * Len(lines)
                      startingY == calculateStartingYForBlock(
                                       PositionField(overlay.position, "y"),
                                       totalHeight, height)
                  IN  [i \in 1..Len(lines) |->
                          LineOverlay(overlay, lines[i], i - 1, Len(lines),
                                      startingY, lineHeight)]

(***************************************************************************)
(* Style chain. A filter is a sequence of fragments [key, val]; the string  *)
(* the code builds is the fragments written key=val and joined by ":".      *)
(***************************************************************************)
Frag(k, v) == [key |-> k, val |-> v]

\* `${obj.k}` for a field that may be missing.
FieldStr(o, k) ==
    IF ~Has(o, k) THEN "undefined"
    ELSE IF k \in {"width", "offsetX", "offsetY", "padding"} THEN ToString(o[k])
    ELSE o[k]

\* text.replace(/c/g, "\\c")
RECURSIVE Escape(_, _)
Escape(text, c) ==
    IF text = <<>> THEN <<>>
    ELSE (IF Head(text) = c THEN <<"\\", c>> ELSE <<Head(text)>>)
         \o Escape(Tail(text), c)

\* Mutant: the quotes escaped, the colons left as they are.
escapedText_QuotesOnly(text) == Escape(text, "'")

escapedText(text) == Escape(Escape(text, "'"), ":")

\* Mutant: the text of the logical overlay drawn for each of its parts.
BaseFilter_OriginalText(overlay) ==
    <<Frag("drawtext=text",
           "'" \o Concat(escapedText(IF Has(overlay, "_originalText")
                                     THEN overlay._originalText
                                     ELSE overlay.text)) \o "'")>>

BaseFilter(overlay) ==
    <<Frag("drawtext=text", "'" \o Concat(escapedText(overlay.text)) \o "'")>>

\* Mutants: the threshold taken as exclusive, and a threshold of 10.
calculateFontSize_Exclusive(fontSize, height) ==
    IF fontSize < 20 THEN MathRound(fontSize * height, 100) ELSE fontSize

calculateFontSize_Threshold10(fontSize, height) ==
    IF fontSize <= 10 THEN MathRound(fontSize * height, 100) ELSE fontSize

calculateFontSize(fontSize, height) ==
    IF fontSize <= 20 THEN MathRound(fontSize * height, 100) ELSE fontSize

\* fontPath.replace(/\\/g, "/") leaves the paths of getFullPath, which hold
\* no backslash, as they are.
FontStyle(filter, overlay, height) ==
    filter
    \o (IF Has(overlay, "fontPath") /\ overlay.fontPath # ""
        THEN <<Frag("fontfile", "'" \o overlay.fontPath \o "'")>> ELSE <<>>)
    \o <<Frag("fontsize", ToString(calculateFontSize(overlay.fontSize, height)))>>

ColorStyle(filter, overlay, height) ==
    IF Has(overlay, "fontColor") /\ overlay.fontColor # ""
    THEN Append(filter, Frag("fontcolor", overlay.fontColor))
    ELSE filter

\* Mutant: the outline written whenever the overlay has a textOutline.
OutlineStyle_IgnoresFlag(filter, overlay, height) ==
    IF Has(overlay, "textOutline")
    THEN filter \o <<Frag("borderw", FieldStr(overlay.textOutline, "width")),
                     Frag("bordercolor", FieldStr(overlay.textOutline, "color"))>>
    ELSE filter

OutlineStyle(filter, overlay, height) ==
    IF Has(overlay, "textOutline") /\ Truthy(overlay.textOutline, "enabled")
    THEN filter \o <<Frag("borderw", FieldStr(overlay.textOutline, "width")),
                     Frag("bordercolor", FieldStr(overlay.textOutline, "color"))>>
    ELSE filter

ShadowStyle(filter, overlay, height) ==
    IF Has(overlay, "textShadow") /\ Truthy(overlay.textShadow, "enabled")
    THEN filter \o <<Frag("shadowx", FieldStr(overlay.textShadow, "offsetX")),
                     Frag("shadowy", FieldStr(overlay.textShadow, "offsetY")),
                     Frag("shadowcolor", FieldStr(overlay.textShadow, "color"))>>
    ELSE filter

BoxStyle(filter, overlay, height) ==
    IF Has(overlay, "textBox") /\ Truthy(overlay.textBox, "enabled")
    THEN filter \o <<Frag("box", "1"),
                     Frag("boxcolor", FieldStr(overlay.textBox, "color")),
                     Frag("boxborderw", FieldStr(overlay.textBox, "padding"))>>
    ELSE filter

\* Mutant: a pixel x left unshifted whatever the alignment.
XExpression_PixelUnshifted(px, textAlign) ==
    IF px.t = "pct"
    THEN CASE textAlign = "left"  -> "w*" \o NumStr(px.n)
           [] textAlign = "right" -> "w*" \o NumStr(px.n) \o "-text_w"
           [] OTHER               -> "w*" \o NumStr(px.n) \o "-text_w/2"
    ELSE IF px.t \in {"number", "numstr"} THEN NumStr(px.n)
    ELSE "(w-text_w)/2"

\* Mutant: a percentage y taken as the top of the text.
YExpression_Top(py) ==
    IF py.t = "pct" THEN "h*" \o NumStr(py.n)
    ELSE IF py.t \in {"number", "numstr"} THEN NumStr(py.n)
    ELSE "(h-text_h)/2"

\* The x expression of an {x, y} position.
XExpression(px, textAlign) ==
    LET base == IF px.t = "pct" THEN "w*" \o NumStr(px.n) ELSE NumStr(px.n)
    IN  IF px.t \in {"pct", "number", "numstr"}
        THEN CASE textAlign = "left"  -> base
               [] textAlign = "right" -> base \o "-text_w"
               [] OTHER               -> base \o "-text_w/2"
        ELSE "(w-text_w)/2"

YExpression(py) ==
    IF py.t = "pct" THEN "h*" \o NumStr(py.n) \o "-text_h/2"
    ELSE IF py.t \in {"number", "numstr"} THEN NumStr(py.n)
    ELSE "(h-text_h)/2"

PresetNames == {"top-left", "top-center", "top-right", "middle-left",
                "middle-center", "middle-right", "bottom-left",
                "bottom-center", "bottom-right", "center"}

positions(name) ==
    CASE name = "top-left"      -> <<"50", "50">>
      [] name = "top-center"    -> <<"(w-text_w)/2", "50">>
      [] name = "top-right"     -> <<"w-text_w-50", "50">>
      [] name = "middle-left"   -> <<"50", "(h-text_h)/2">>
      [] name = "middle-center" -> <<"(w-text_w)/2", "(h-text_h)/2">>
      [] name = "middle-right"  -> <<"w-text_w-50", "(h-text_h)/2">>
      [] name = "bottom-left"   -> <<"50", "h-text_h-50">>
      [] name = "bottom-center" -> <<"(w-text_w)/2", "h-text_h-50">>
      [] name = "bottom-right"  -> <<"w-text_w-50", "h-text_h-50">>
      [] OTHER                  -> <<"(w-text_w)/2", "(h-text_h)/2">>

IsXYObject(position) ==
    position.t = "object" /\ Has(position, "x") /\ Has(position, "y")

\* typeof null === 'object', so position.x is read of null: a TypeError.
getPositionCoordinatesThrows(position) == position.t = "null"

\* The pair <<x, y>> of the returned "x:y" (nothing is returned on a throw).
getPositionCoordinates(position, textAlign) ==
    IF getPositionCoordinatesThrows(position) THEN <<>>
    ELSE IF IsXYObject(position)
    THEN <<XExpression(position.x, textAlign), YExpression(position.y)>>
    ELSE IF position.t = "string" THEN positions(position.s)
    ELSE positions("center")

PositionStyle(filter, overlay, height) ==
    LET coordinates ==
            getPositionCoordinates(
                overlay.position,
                IF Has(overlay, "textAlign") THEN overlay.textAlign ELSE "center")
    IN  filter \o <<Frag("x", coordinates[1]), Frag("y", coordinates[2])>>

(***************************************************************************)
(* Effects (EffectFactory and the eight BaseEffect subclasses).             *)
(***************************************************************************)
EffectTypes == {"fade-in", "fade-out", "slide-up", "slide-down",
                "slide-left", "slide-right", "zoom-in", "zoom-out"}

\* defaultDuration of each effect, in hundredths of a second.
defaultDuration(type) ==
    IF type \in {"fade-in", "fade-out"} THEN 50
    ELSE IF type \in {"zoom-in", "zoom-out"} THEN 60
    ELSE 80

\* new Effect_X(): the instance of the class registered for an effect type.
NewEffect(type) == [type |-> type, defaultDuration |-> defaultDuration(type)]

\* Mutant: a cache that serves whatever instance it holds.
getEffect_AnyCached(instances, effectType) ==
    IF DOMAIN instances # {}
    THEN instances[CHOOSE t \in DOMAIN instances : TRUE]
    ELSE NewEffect(effectType)

\* EffectFactory.getEffect for one of the eight types: the cached instance
\* if there is one, a new one otherwise.
getEffect(instances, effectType) ==
    IF effectType \in DOMAIN instances THEN instances[effectType]
    ELSE NewEffect(effectType)

\* overlay.animation.duration || this.defaultDuration
EffectDuration(overlay) ==
    IF Has(overlay.animation, "duration") /\ overlay.animation.duration # 0
    THEN overlay.animation.duration
    ELSE defaultDuration(overlay.animation.type)

\* overlay.animation.delay || 0
EffectDelay(overlay) ==
    IF Has(overlay.animation, "delay") THEN overlay.animation.delay ELSE 0

\* :enable='between(t,start,end)'
VisibilityGate(overlay) ==
    Frag("enable", "'between(t," \o NumStr(overlay.startTime) \o ","
                   \o NumStr(overlay.endTime) \o ")'")

\* The fragment an effect appends after the gate.
EffectFragment(overlay, coordinates) ==
    LET type == overlay.animation.type
        duration == NumStr(EffectDuration(overlay))
        actualStartTime == overlay.startTime + EffectDelay(overlay)
        rampEnd == NumStr(actualStartTime + EffectDuration(overlay))
        exitStart == NumStr(overlay.endTime - EffectDuration(overlay)
                            - EffectDelay(overlay))
        from == NumStr(actualStartTime)
        x == coordinates[1]
        y == coordinates[2]
    IN  CASE type \in {"fade-in", "zoom-in"} ->
               Frag("alpha", "'if(lt(t," \o rampEnd \o "),(t-" \o from \o ")/"
                             \o duration \o ",1)'")
          [] type \in {"fade-out", "zoom-out"} ->
               Frag("alpha", "'if(gt(t," \o exitStart \o "),("
                             \o NumStr(overlay.endTime) \o "-t)/" \o duration
                             \o ",1)'")
          [] type = "slide-up" ->
               Frag("y", "'if(lt(t," \o rampEnd \o "),h+(" \o rampEnd \o "-t)/"
                         \o duration \o "*h*0.1-text_h," \o y \o ")'")
          [] type = "slide-down" ->
               Frag("y", "'if(lt(t," \o rampEnd \o "),-text_h+(t-" \o from \o ")/"
                         \o duration \o "*(" \o y \o "+text_h)," \o y \o ")'")
          [] type = "slide-left" ->
               Frag("x", "'if(lt(t," \o rampEnd \o "),w-(t-" \o from \o ")/"
                         \o duration \o "*w," \o x \o ")'")
          [] type = "slide-right" ->
               Frag("x", "'if(lt(t," \o rampEnd \o "),-text_w+(t-" \o from \o ")/"
                         \o duration \o "*(" \o x \o "+text_w)," \o x \o ")'")

\* Mutant: an effect that writes its ramp without the gate.
generateFilter_NoGate(overlay, coordinates) ==
    <<EffectFragment(overlay, coordinates)>>

generateFilter(overlay, coordinates) ==
    <<VisibilityGate(overlay), EffectFragment(overlay, coordinates)>>

\* AnimationStyle's own copy of the coordinate computation.
getCoordinatesForEffect(overlay) ==
    LET textAlign == IF Has(overlay, "textAlign") THEN overlay.textAlign
                     ELSE "center"
    IN  IF IsXYObject(overlay.position)
        THEN <<XExpression(overlay.position.x, textAlign),
               YExpression(overlay.position.y)>>
        ELSE <<"(w-text_w)/2", "(h-text_h)/2">>

\* animation && animation.enabled && animation.type
AnimationRequested(overlay) ==
    /\ Has(overlay, "animation")
    /\ Truthy(overlay.animation, "enabled")
    /\ Has(overlay.animation, "type")
    /\ overlay.animation.type # ""

\* EffectFactory.getEffect throws and the catch block warns.
AnimationWarns(overlay) ==
    AnimationRequested(overlay) /\ overlay.animation.type \notin EffectTypes

\* EffectsManager.generateEffectFilter, the entry point of the effect
\* registry (AnimationStyle goes through EffectFactory instead).
generateEffectFilter(overlay, coordinates) ==
    IF ~Truthy(overlay.animation, "enabled") THEN <<VisibilityGate(overlay)>>
    ELSE IF Has(overlay.animation, "type") /\ overlay.animation.type \in EffectTypes
    THEN generateFilter(overlay, coordinates)
    ELSE <<VisibilityGate(overlay)>>

\* Mutant: the effect written whenever its type is registered, enabled or not.
AnimationStyle_IgnoresFlag(filter, overlay, height) ==
    IF /\ Has(overlay, "animation")
       /\ Has(overlay.animation, "type")
       /\ overlay.animation.type \in EffectTypes
    THEN filter \o generateFilter(overlay, getCoordinatesForEffect(overlay))
    ELSE Append(filter, VisibilityGate(overlay))

\* effectInstance.generateFilter(overlay, coordinates): the method of the
\* class of the instance, whatever type the overlay asked for (generateFilter
\* above selects the class by animation.type, which no class reads).
generateFilterOf(effectInstance, overlay, coordinates) ==
    generateFilter(
        Spread(overlay,
               "animation" :> Spread(overlay.animation,
                                     "type" :> effectInstance.type)),
        coordinates)

\* The cache once AnimationStyle.apply has run on an overlay.
CachedEffects(instances, overlay) ==
    IF /\ AnimationRequested(overlay)
       /\ ~AnimationWarns(overlay)
       /\ overlay.animation.type \notin DOMAIN instances
    THEN Spread(instances,
                overlay.animation.type :> NewEffect(overlay.animation.type))
    ELSE instances

\* AnimationStyle.apply in a process whose effect cache is `instances`.
AnimationStyleIn(instances, filter, overlay, height) ==
    IF AnimationRequested(overlay) /\ ~AnimationWarns(overlay)
    THEN filter \o generateFilterOf(
                       getEffect(instances, overlay.animation.type), overlay,
                       getCoordinatesForEffect(overlay))
    ELSE Append(filter, VisibilityGate(overlay))

AnimationStyle(filter, overlay, height) ==
    AnimationStyleIn(effectInstances, filter, overlay, height)

(***************************************************************************)
(* The expressions written into the alpha, x and y options, as terms of     *)
(* ffmpeg's expression language: a term is written out by Render and given  *)
(* a value by Eval. Values are exact fractions <<numerator, denominator>>.   *)
(***************************************************************************)
Num(c) == [op |-> "num", c |-> c]                \* the decimal c/100
Var(name) == [op |-> "var", name |-> name]       \* t, w, h, text_w, text_h
Bin(f, a, b) == [op |-> "bin", f |-> f, a |-> a, b |-> b]
Neg(a) == [op |-> "neg", a |-> a]
Paren(a) == [op |-> "paren", a |-> a]
IfTerm(cmp, a, b, then, else) ==
    [op |-> "if", cmp |-> cmp, a |-> a, b |-> b, then |-> then, else |-> else]

\* The text of a term, operands written left to right without added brackets.
RECURSIVE Render(_)
Render(term) ==
    CASE term.op = "num"   -> NumStr(term.c)
      [] term.op = "var"   -> term.name
      [] term.op = "bin"   -> Render(term.a) \o term.f \o Render(term.b)
      [] term.op = "neg"   -> "-" \o Render(term.a)
      [] term.op = "paren" -> "(" \o Render(term.a) \o ")"
      [] term.op = "if"    -> "if(" \o term.cmp \o "(" \o Render(term.a) \o ","
                              \o Render(term.b) \o ")," \o Render(term.then)
                              \o "," \o Render(term.else) \o ")"

\* A term whose text is read back as the same term: * and / bind tighter
\* than + and -, and operators of one level associate to the left.
RECURSIVE ReadsBack(_)
ReadsBack(term) ==
    CASE term.op \in {"num", "var"} -> TRUE
      [] term.op = "neg"   -> term.a.op \in {"num", "var", "paren"}
                              /\ ReadsBack(term.a)
      [] term.op = "paren" -> ReadsBack(term.a)
      [] term.op = "if"    -> /\ ReadsBack(term.a) /\ ReadsBack(term.b)
                              /\ ReadsBack(term.then) /\ ReadsBack(term.else)
      [] term.op = "bin"   ->
            /\ ReadsBack(term.a) /\ ReadsBack(term.b)
            /\ term.b.op # "neg"
            /\ term.b.op = "bin" =>
                   (term.f \in {"+", "-"} /\ term.b.f \in {"*", "/"})
            /\ (term.f \in {"*", "/"} /\ term.a.op = "bin") =>
                   term.a.f \in {"*", "/"}
            /\ (term.f \in {"*", "/"}) => term.a.op # "neg"

RECURSIVE GCD(_, _)
GCD(a, b) == IF b = 0 THEN a ELSE GCD(b, a % b)

\* A fraction in lowest terms with a positive denominator.
Fraction(n, d) ==
    LET s == IF d < 0 THEN -1 ELSE 1
        g == GCD(Abs(n), Abs(d))
    IN  IF n = 0 THEN <<0, 1>> ELSE <<(s * n) \div g, (s * d) \div g>>

Less(p, q) == p[1] * q[2] < q[1] * p[2]

\* A frame: the time t in hundredths of a second, and the sizes w, h,
\* text_w, text_h in pixels.
ValueOfVar(name, frame) ==
    IF name = "t" THEN Fraction(frame.t, 100) ELSE Fraction(frame[name], 1)

\* The value ffmpeg gives a term on a frame (no term here divides by zero).
RECURSIVE Eval(_, _)
Eval(term, frame) ==
    CASE term.op = "num"   -> Fraction(term.c, 100)
      [] term.op = "var"   -> ValueOfVar(term.name, frame)
      [] term.op = "neg"   -> LET a == Eval(term.a, frame) IN Fraction(-a[1], a[2])
      [] term.op = "paren" -> Eval(term.a, frame)
      [] term.op = "if"    ->
            LET a == Eval(term.a, frame)
                b == Eval(term.b, frame)
                holds == IF term.cmp = "lt" THEN Less(a, b) ELSE Less(b, a)
            IN  IF holds THEN Eval(term.then, frame) ELSE Eval(term.else, frame)
      [] term.op = "bin"   ->
            LET a == Eval(term.a, frame)
                b == Eval(term.b, frame)
            IN  CASE term.f = "+" -> Fraction(a[1] * b[2] + b[1] * a[2], a[2] * b[2])
                  [] term.f = "-" -> Fraction(a[1] * b[2] - b[1] * a[2], a[2] * b[2])
                  [] term.f = "*" -> Fraction(a[1] * b[1], a[2] * b[2])
                  [] term.f = "/" -> Fraction(a[1] * b[2], a[2] * b[1])

\* The terms of the coordinates written by getPositionCoordinates and by
\* getCoordinatesForEffect for an {x, y} position.
CentredX == Bin("/", Paren(Bin("-", Var("w"), Var("text_w"))), Num(200))
CentredY == Bin("/", Paren(Bin("-", Var("h"), Var("text_h"))), Num(200))

XTerm(px, textAlign) ==
    LET base == IF px.t = "pct" THEN Bin("*", Var("w"), Num(px.n)) ELSE Num(px.n)
    IN  IF px.t \in {"pct", "number", "numstr"}
        THEN CASE textAlign = "left"  -> base
               [] textAlign = "right" -> Bin("-", base, Var("text_w"))
               [] OTHER -> Bin("-", base, Bin("/", Var("text_w"), Num(200)))
        ELSE CentredX

YTerm(py) ==
    IF py.t = "pct"
    THEN Bin("-", Bin("*", Var("h"), Num(py.n)), Bin("/", Var("text_h"), Num(200)))
    ELSE IF py.t \in {"number", "numstr"} THEN Num(py.n)
    ELSE CentredY

\* The pair of terms of `coordinates` in AnimationStyle.apply.
EffectCoordinateTerms(overlay) ==
    LET textAlign == IF Has(overlay, "textAlign") THEN overlay.textAlign
                     ELSE "center"
    IN  IF IsXYObject(overlay.position)
        THEN <<XTerm(overlay.position.x, textAlign), YTerm(overlay.position.y)>>
        ELSE <<CentredX, CentredY>>

\* const actualStartTime = overlay.startTime + delay
actualStartTime(overlay) == overlay.startTime + EffectDelay(overlay)

\* fadeInEnd, zoomEnd, slideEnd
slideEnd(overlay) == actualStartTime(overlay) + EffectDuration(overlay)

\* fadeOutStart, zoomStart
fadeOutStart(overlay) ==
    overlay.endTime - EffectDuration(overlay) - EffectDelay(overlay)

\* The term an effect writes after "alpha=", "x=" or "y=", between quotes.
EffectTerm(overlay, terms) ==
    LET type == overlay.animation.type
        duration == Num(EffectDuration(overlay))
        from == Num(actualStartTime(overlay))
        rampEnd == Num(slideEnd(overlay))
        progress == Bin("/", Paren(Bin("-", Var("t"), from)), duration)
    IN  CASE type \in {"fade-in", "zoom-in"} ->
               IfTerm("lt", Var("t"), rampEnd, progress, Num(100))
          [] type \in {"fade-out", "zoom-out"} ->
               IfTerm("gt", Var("t"), Num(fadeOutStart(overlay)),
                      Bin("/", Paren(Bin("-", Num(overlay.endTime), Var("t"))),
                          duration),
                      Num(100))
          [] type = "slide-up" ->
               IfTerm("lt", Var("t"), rampEnd,
                      Bin("-",
                          Bin("+", Var("h"),
                              Bin("*",
                                  Bin("*",
                                      Bin("/", Paren(Bin("-", rampEnd, Var("t"))),
                                          duration),
                                      Var("h")),
                                  Num(10))),
                          Var("text_h")),
                      terms[2])
          [] type = "slide-down" ->
               IfTerm("lt", Var("t"), rampEnd,
                      Bin("+", Neg(Var("text_h")),
                          Bin("*", progress,
                              Paren(Bin("+", terms[2], Var("text_h"))))),
                      terms[2])
          [] type = "slide-left" ->
               IfTerm("lt", Var("t"), rampEnd,
                      Bin("-", Var("w"), Bin("*", progress, Var("w"))),
                      terms[1])
          [] type = "slide-right" ->
               IfTerm("lt", Var("t"), rampEnd,
                      Bin("+", Neg(Var("text_w")),
                          Bin("*", progress,
                              Paren(Bin("+", terms[1], Var("text_w"))))),
                      terms[1])

(***************************************************************************)
(* StyleManager.                                                            *)
(***************************************************************************)
\* Mutant: the position applier registered before the box applier.
styles_Swapped == <<"FontStyle", "ColorStyle", "OutlineStyle", "ShadowStyle",
                    "PositionStyle", "BoxStyle", "AnimationStyle">>

styles == <<"FontStyle", "ColorStyle", "OutlineStyle", "ShadowStyle",
            "BoxStyle", "PositionStyle", "AnimationStyle">>

apply(style, filter, overlay, height) ==
    CASE style = "FontStyle"      -> FontStyle(filter, overlay, height)
      [] style = "ColorStyle"     -> ColorStyle(filter, overlay, height)
      [] style = "OutlineStyle"   -> OutlineStyle(filter, overlay, height)
      [] style = "ShadowStyle"    -> ShadowStyle(filter, overlay, height)
      [] style = "BoxStyle"       -> BoxStyle(filter, overlay, height)
      [] style = "PositionStyle"  -> PositionStyle(filter, overlay, height)
      [] style = "AnimationStyle" -> AnimationStyle(filter, overlay, height)

\* for (const style of this.styles) filter = style.apply(filter, overlay, ctx)
RECURSIVE ApplyStyles(_, _, _, _)
ApplyStyles(list, filter, overlay, height) ==
    IF list = <<>> THEN filter
    ELSE ApplyStyles(Tail(list), apply(Head(list), filter, overlay, height),
                     overlay, height)

buildFilter(overlay, height) ==
    ApplyStyles(styles, BaseFilter(overlay), overlay, height)

\* The only applier that throws is the position applier, on a null position.
buildFilterThrows(overlay) == getPositionCoordinatesThrows(overlay.position)

(***************************************************************************)
(* DisplayService.displayConfiguration: console output only, but it reads   *)
(* .enabled of the four nested objects of the first overlay of every group  *)
(* and so throws a TypeError when one of them is undefined.                 *)
(***************************************************************************)
IsExpanded(overlay) ==
    Truthy(overlay, "_isMultiLine") \/ Truthy(overlay, "_isTextElement")

\* groupOverlays, keeping of each group its first overlay.
RECURSIVE groupOverlays(_, _)
groupOverlays(list, groups) ==
    IF list = <<>> THEN groups
    ELSE LET overlay == Head(list)
         IN  IF IsExpanded(overlay)
             THEN groupOverlays(Tail(list),
                      IF overlay._originalText \in DOMAIN groups THEN groups
                      ELSE Spread(groups, overlay._originalText :> overlay))
             ELSE groupOverlays(Tail(list),
                      Spread(groups, overlay.text :> overlay))

NestedObjects == {"textOutline", "textShadow", "textBox", "animation"}

\* config.textOverlays.find((o) => o.text === originalText)?.position
originalPosition(originalText) ==
    LET found == {k \in DOMAIN config : config[k].text = originalText}
    IN  IF found = {} THEN [t |-> "undefined"]
        ELSE config[CHOOSE k \in found : \A j \in found : k <= j].position

\* The position shown of a group: .x is read of it when typeof says 'object'.
positionDisplayThrows(originalText, firstOverlay) ==
    IF IsExpanded(firstOverlay)
    THEN originalPosition(originalText).t = "null"
    ELSE firstOverlay.position.t = "null"

displayConfigurationThrows(list) ==
    LET groups == groupOverlays(list, EmptyObject)
    IN  \E key \in DOMAIN groups :
            \/ positionDisplayThrows(key, groups[key])
            \/ ~(NestedObjects \subseteq DOMAIN groups[key])

(***************************************************************************)
(* Inputs: configurations, probed videos and installed font files.          *)
(***************************************************************************)
Pct(n) == [t |-> "pct", n |-> n]
Px(n) == [t |-> "number", n |-> 100 * n]
PxString(n) == [t |-> "numstr", n |-> 100 * n]
Word == [t |-> "text", n |-> 0]
XY(px, py) == [t |-> "object", x |-> px, y |-> py]
Preset(name) == [t |-> "string", s |-> name]
Null == [t |-> "null"]

DefaultOverlay ==
    [text |-> <<"H", "i">>, startTime |-> 0, endTime |-> 200, fontSize |-> 6,
     fontFamily |-> "fjalla-one", fontColor |-> "white",
     position |-> XY(Pct(50), Pct(50)),
     textOutline |-> [enabled |-> FALSE, color |-> "black", width |-> 2],
     textShadow |-> [enabled |-> FALSE, color |-> "black", offsetX |-> 2,
                     offsetY |-> 2],
     textBox |-> [enabled |-> FALSE, color |-> "black@0.5", padding |-> 10],
     animation |-> [enabled |-> FALSE, type |-> "fade-in", duration |-> 50]]

With(o, k, v) == Spread(o, k :> v)
Without(o, k) == [f \in DOMAIN o \ {k} |-> o[f]]

Times == {100 * s : s \in 0..MaxTime}
Lines == 0..MaxLine

Element(l) == [text |-> <<"w", ToString(l)>>, line |-> l]

\* Sequences of 1..n members of S.
SeqsUpTo(S, n) == UNION {[1..k -> S] : k \in 1..n}

Video(h) == [ok |-> TRUE, height |-> h]
Input(c, h) == [config |-> c, video |-> Video(h), fontFiles |-> FontTypes]

\* Timing: every start/end of the parent, elements overriding either.
TimedElements ==
    {Element(0)}
    \cup {With(Element(0), "startTime", s) : s \in Times}
    \cup {With(Element(0), "endTime", e) : e \in Times}
    \cup {With(With(Element(0), "startTime", s), "endTime", e) : s, e \in Times}

TimedOverlays ==
    LET parents == {With(With(DefaultOverlay, "startTime", s), "endTime", e) :
                    s, e \in Times}
    IN  parents \cup {With(p, "textElements", <<el>>) :
                      p \in parents, el \in TimedElements}

TimingInputs == {Input(<<o>>, 1000) : o \in TimedOverlays}

\* Font sizes on both sides of the threshold, on three video heights.
FontSizes == {-1, 0, 1, 3, 19, 20, 21, 48}
Heights == {150, 1000, 1080}

FontInputs ==
    LET sized == {With(DefaultOverlay, "fontSize", v) : v \in FontSizes}
    IN  {Input(c, h) : c \in SeqsUpTo(sized, 2), h \in Heights}

\* Texts with line breaks, for every form of position.y.
Texts == {<<"H", "i">>,
          <<"A", "\n", "B">>,
          <<" ", "A", " ", "\n", "B", "\t">>,
          <<"A", "\n", "B", "\n", "C">>,
          <<"A", "\n", "\n", "B">>}

BlockPositions == {XY(Pct(50), Pct(50)), XY(Pct(50), Pct(25)),
                   XY(Px(100), Px(300)), XY(PxString(100), PxString(300)),
                   XY(Word, Word), Preset("top-left")}

MultiLineOverlays ==
    LET plain == {With(With(With(DefaultOverlay, "text", txt), "position", p),
                       "fontSize", v) :
                  txt \in Texts, p \in BlockPositions, v \in {6, 30}}
    IN  plain \cup {With(o, "textAlign", "left") : o \in plain}
        \cup {With(DefaultOverlay, "textElements", <<>>),
              With(DefaultOverlay, "text", <<" ", "H", "i", " ">>)}

MultiLineInputs == {Input(<<o>>, 1000) : o \in MultiLineOverlays}

\* Word elements on lines 0..MaxLine, with and without their own font size.
LayoutElements ==
    {Element(l) : l \in Lines} \cup {With(Element(l), "fontSize", 30) : l \in Lines}

ElementOverlays ==
    {With(With(DefaultOverlay, "position", p), "textElements", els) :
     p \in {XY(Pct(50), Pct(50)), XY(Px(100), Px(300))},
     els \in SeqsUpTo(LayoutElements, MaxElements)}

\* The block of two lines of one size, and a block that leaves a line
\* number unused and mixes two sizes on a line.
TwoLineBlock ==
    With(DefaultOverlay, "textElements", <<Element(0), Element(1)>>)

GappedBlock ==
    With(With(DefaultOverlay, "position", XY(Px(100), Px(300))), "textElements",
         <<Element(2), With(Element(0), "fontSize", 30), Element(0)>>)

\* Font sizes a word element may declare: validateOverlay never reads them.
UnvalidatedSizes == {-5, 0}

\* Word elements whose own text holds a line break.
LineBreakElements ==
    {With(Element(l), "text", text) :
     l \in {0, 1}, text \in {<<"a", "\n", "b">>, <<"\n">>, <<"a", "\n">>}}

ElementInputs ==
    {Input(<<o>>, 1000) : o \in ElementOverlays}
    \cup {Input(<<TwoLineBlock, GappedBlock>>, 1000)}
    \cup {Input(<<With(TwoLineBlock, "position", Preset("bottom-center"))>>,
                1000)}
    \cup {Input(<<With(DefaultOverlay, "textElements",
                       <<Element(0), With(Element(1), "fontSize", v)>>)>>,
                1000) : v \in UnvalidatedSizes}
    \cup {Input(<<With(DefaultOverlay, "textElements", els)>>, 1000) :
          els \in {<<e>> : e \in LineBreakElements}
                  \cup {<<Element(0), e>> : e \in LineBreakElements}}

\* Elements overriding one field or one key of a nested object.
MergeElements ==
    {With(Element(0), "textOutline", part) :
        part \in {[color |-> "red"], [width |-> 4], [enabled |-> TRUE],
                  [enabled |-> TRUE, color |-> "red", width |-> 4]}}
    \cup {With(Element(0), "textShadow", part) :
        part \in {[offsetX |-> 5], [enabled |-> TRUE]}}
    \cup {With(Element(0), "textBox", part) :
        part \in {[padding |-> 3], [enabled |-> TRUE]}}
    \cup {With(Element(0), "animation", part) :
        part \in {[enabled |-> TRUE], [type |-> "slide-up"], [duration |-> 100],
                  [delay |-> 50]}}
    \cup {With(Element(0), "fontColor", "gold"),
          With(Element(0), "textAlign", "right"),
          With(Element(0), "fontSize", 8)}

\* An overlay with none of the four optional objects.
BareOverlay ==
    Without(Without(Without(Without(DefaultOverlay, "textOutline"),
                            "textShadow"), "textBox"), "animation")

MergeParents ==
    {DefaultOverlay,
     With(With(DefaultOverlay, "textOutline",
               [enabled |-> TRUE, color |-> "black", width |-> 2]),
          "textAlign", "left"),
     BareOverlay}

MergeInputs ==
    {Input(<<With(p, "textElements", <<el>>)>>, 1000) :
     p \in MergeParents, el \in MergeElements}

\* Several overlays of the three kinds, and no overlay at all.
OrderOverlays ==
    {DefaultOverlay,
     With(DefaultOverlay, "text", <<"A", "\n", "B">>),
     With(With(DefaultOverlay, "text", <<"x", " ", "y">>), "textElements",
          <<Element(1), Element(0)>>)}

OrderInputs ==
    {Input(c, 1000) : c \in SeqsUpTo(OrderOverlays, MaxOverlays) \cup {<<>>}}

\* Every state of the three flagged style objects and of the animation.
Flagged(o, k) ==
    {Without(o, k), o, With(o, k, With(o[k], "enabled", TRUE))}

Animations ==
    {[enabled |-> FALSE, type |-> ty, duration |-> 50] : ty \in EffectTypes}
    \cup {[enabled |-> TRUE, type |-> ty, duration |-> 100, delay |-> 50] :
          ty \in EffectTypes \cup {"spin", ""}}
    \cup {[enabled |-> TRUE, type |-> "fade-in"], [enabled |-> TRUE]}

StyleOverlays ==
    LET flags == UNION {UNION {Flagged(b, "textBox") : b \in Flagged(a, "textShadow")} :
                        a \in Flagged(DefaultOverlay, "textOutline")}
    IN  UNION {{f, With(f, "fontColor", ""),
                With(f, "animation", [enabled |-> TRUE, type |-> "slide-down"])} :
               f \in flags}
        \cup {With(With(DefaultOverlay, "animation", a), "position", p) :
              a \in Animations,
              p \in {XY(Pct(50), Pct(50)), XY(Px(100), Px(300)),
                     Preset("bottom-center")}}
        \cup {Without(DefaultOverlay, "animation"), BareOverlay}
        \cup {With(With(DefaultOverlay, "fontSize", 20), "animation",
                   [enabled |-> TRUE, type |-> ty, duration |-> 100]) :
              ty \in {"slide-up", "slide-down", "slide-left", "slide-right"}}

\* Effects of one second, delayed or not, on an overlay shown for one.
ShortWindowOverlays ==
    {With(With(DefaultOverlay, "endTime", 100), "animation", a) :
     a \in {[enabled |-> TRUE, type |-> ty, duration |-> 100, delay |-> d] :
            ty \in EffectTypes, d \in {0, 50}}}

\* An overlay alone, and followed by one of the same text (which takes its
\* place in the display groups).
StyleInputs ==
    {Input(<<o>>, 1080) : o \in StyleOverlays \cup ShortWindowOverlays}
    \cup {Input(<<o, DefaultOverlay>>, 1080) : o \in StyleOverlays}

\* {x, y} positions of every well-formed kind, under every alignment.
Alignments == {"left", "center", "right"}

AlignedOverlays ==
    LET placed == {With(With(DefaultOverlay, "fontSize", 10), "position", p) :
                   p \in {XY(Pct(50), Pct(50)), XY(Pct(25), Px(300)),
                          XY(Px(100), Pct(75)), XY(PxString(100), PxString(300))}}
    IN  placed \cup {With(o, "textAlign", a) : o \in placed, a \in Alignments}

\* Positions that are neither a percentage/pixel pair nor a preset name.
MalformedPositions ==
    {Preset("nowhere"), Null,
     [t |-> "object", x |-> Pct(50)], [t |-> "object", y |-> Pct(50)],
     [t |-> "object"],
     XY(Word, Word), XY(Word, Pct(25)), XY(Pct(25), Word), XY(Px(100), Word)}

MalformedOverlays ==
    {With(DefaultOverlay, "position", p) : p \in MalformedPositions}

\* A right-aligned pixel x followed by a left-aligned percentage x.
AlignedPair ==
    <<With(With(DefaultOverlay, "position", XY(Px(100), Pct(75))),
           "textAlign", "right"),
      With(With(DefaultOverlay, "position", XY(Pct(25), Px(300))),
           "textAlign", "left")>>

PositionInputs ==
    {Input(<<o>>, 1080) : o \in AlignedOverlays \cup MalformedOverlays}
    \cup {Input(AlignedPair, 1080)}
    \cup {Input(<<o, DefaultOverlay>>, 1080) : o \in MalformedOverlays}

\* An overlay compiled twice in one process, another one in between:
\* effects left to their default duration, on two fonts.
CachedOverlays ==
    {With(With(DefaultOverlay, "animation", [enabled |-> TRUE, type |-> ty]),
          "fontFamily", family) :
     ty \in {"fade-in", "zoom-out", "slide-left"},
     family \in {"fjalla-one", "cookie"}}

RepeatInputs ==
    {Input(<<a, b, a>>, 1080) : a, b \in CachedOverlays}

\* Texts of quotes, colons, backslashes and letters.
EscapeTexts == SeqsUpTo({"a", "b", "'", ":", "\\"}, 3)

EscapeInputs ==
    {Input(<<With(DefaultOverlay, "text", text)>>, 1080) : text \in EscapeTexts}

\* Requests that fail before layout.
InvalidInputs ==
    {[config |-> <<DefaultOverlay>>, video |-> [ok |-> FALSE],
      fontFiles |-> FontTypes],
     [config |-> <<DefaultOverlay>>, video |-> Video(1080),
      fontFiles |-> FontTypes \ {"fjalla-one"}],
     Input(<<With(DefaultOverlay, "fontFamily", "comic-sans")>>, 1080),
     Input(<<DefaultOverlay, With(DefaultOverlay, "fontFamily", "cookie"),
             With(DefaultOverlay, "fontSize", 0)>>, 1080)}

Inputs ==
    TimingInputs \cup FontInputs \cup MultiLineInputs \cup ElementInputs
    \cup MergeInputs \cup OrderInputs \cup StyleInputs \cup PositionInputs
    \cup RepeatInputs \cup EscapeInputs \cup InvalidInputs

(***************************************************************************)
(* VideoTextApplication.processVideo.                                       *)
(***************************************************************************)
Init ==
    /\ \E in \in Inputs :
          /\ config = in.config
          /\ video = in.video
          /\ fontFiles = in.fontFiles
    /\ pc = "probe"
    /\ videoHeight = 0
    /\ fontOverlays = <<>>
    /\ idx = 0
    /\ processed = <<>>
    /\ origin = <<>>
    /\ textFilters = <<>>
    /\ vf = <<>>
    /\ ffmpegRuns = 0
    /\ warnings = 0
    /\ outcome = "none"
    /\ effectInstances = EmptyObject
    /\ fontInstances = EmptyObject

\* catch (error) { console.error(...); process.exit(1) }, and the
\* process.exit(1) calls of the validation service.
Exit(reason) ==
    /\ pc' = "exited"
    /\ outcome' = reason

\* await VideoAnalyzer.getDimensions(inputFile) resolves.
ProbeResolve ==
    /\ pc = "probe"
    /\ video.ok
    /\ videoHeight' = video.height
    /\ pc' = "validate"
    /\ UNCHANGED <<effectInstances, fontInstances,
                   config, video, fontFiles, fontOverlays, idx, processed,
                   origin, textFilters, vf, ffmpegRuns, warnings, outcome>>

\* ... or rejects: the dimensions cannot be parsed.
ProbeReject ==
    /\ pc = "probe"
    /\ ~video.ok
    /\ Exit("UnresolvableDimensions")
    /\ UNCHANGED <<effectInstances, fontInstances,
                   config, video, fontFiles, videoHeight, fontOverlays, idx,
                   processed, origin, textFilters, vf, ffmpegRuns, warnings>>

ValidateOk ==
    /\ pc = "validate"
    /\ validateConfiguration(config, fontFiles) = "ok"
    /\ pc' = "fonts"
    /\ fontInstances' = CachedFonts(fontInstances, ValidatedFonts(config, fontFiles))
    /\ UNCHANGED <<effectInstances,
                   config, video, fontFiles, videoHeight, fontOverlays, idx,
                   processed, origin, textFilters, vf, ffmpegRuns, warnings,
                   outcome>>

ValidateExit ==
    /\ pc = "validate"
    /\ validateConfiguration(config, fontFiles) # "ok"
    /\ Exit(validateConfiguration(config, fontFiles))
    /\ fontInstances' = CachedFonts(fontInstances, ValidatedFonts(config, fontFiles))
    /\ UNCHANGED <<effectInstances,
                   config, video, fontFiles, videoHeight, fontOverlays, idx,
                   processed, origin, textFilters, vf, ffmpegRuns, warnings>>

\* processOverlays, first processor of the chain.
ProcessFonts ==
    /\ pc = "fonts"
    /\ IF \A i \in 1..Len(config) : FontResolves(config[i].fontFamily, fontFiles)
       THEN /\ fontOverlays' = FontPathProcessor(config)
            /\ pc' = "layout"
            /\ outcome' = outcome
       ELSE /\ fontOverlays' = fontOverlays
            /\ Exit("UnresolvableFont")
    /\ fontInstances' =
           CachedFonts(fontInstances,
                       {config[i].fontFamily : i \in 1..Len(config)})
    /\ UNCHANGED <<effectInstances,
                   config, video, fontFiles, videoHeight, idx, processed,
                   origin, textFilters, vf, ffmpegRuns, warnings>>

\* Mutant: the overlays of an input put in front of those already there.
handleProcess_Prepend(result, overlay, height) ==
    parseMultiLineText(overlay, height) \o result

\* One iteration of the loop of MultiLineProcessor.handleProcess.
handleProcess(result, overlay, height) ==
    result \o parseMultiLineText(overlay, height)

ExpandOverlay ==
    /\ pc = "layout"
    /\ idx < Len(fontOverlays)
    /\ LET expandedOverlays == parseMultiLineText(fontOverlays[idx + 1], videoHeight)
       IN  /\ processed' = handleProcess(processed, fontOverlays[idx + 1], videoHeight)
           /\ origin' = origin \o [k \in 1..Len(expandedOverlays) |-> <<idx + 1, k>>]
    /\ idx' = idx + 1
    /\ UNCHANGED <<effectInstances, fontInstances,
                   pc, config, video, fontFiles, videoHeight, fontOverlays,
                   textFilters, vf, ffmpegRuns, warnings, outcome>>

\* if (processedOverlays.length === 0) process.exit(1)
NoOverlays ==
    /\ pc = "layout"
    /\ idx = Len(fontOverlays)
    /\ Len(processed) = 0
    /\ Exit("NoOverlays")
    /\ UNCHANGED <<effectInstances, fontInstances,
                   config, video, fontFiles, videoHeight, fontOverlays, idx,
                   processed, origin, textFilters, vf, ffmpegRuns, warnings>>

DisplayConfiguration ==
    /\ pc = "layout"
    /\ idx = Len(fontOverlays)
    /\ Len(processed) > 0
    /\ IF displayConfigurationThrows(processed)
       THEN Exit("TypeError")
       ELSE pc' = "filters" /\ outcome' = outcome
    /\ UNCHANGED <<effectInstances, fontInstances,
                   config, video, fontFiles, videoHeight, fontOverlays, idx,
                   processed, origin, textFilters, vf, ffmpegRuns, warnings>>

\* Mutant: an unknown effect type ends the request instead of warning.
BuildFilter_Throws ==
    /\ pc = "filters"
    /\ Len(textFilters) < Len(processed)
    /\ LET overlay == processed[Len(textFilters) + 1]
       IN  IF buildFilterThrows(overlay)
           THEN /\ Exit("TypeError")
                /\ UNCHANGED <<textFilters, warnings, effectInstances>>
           ELSE IF AnimationWarns(overlay)
           THEN /\ Exit("UnknownEffect")
                /\ UNCHANGED <<textFilters, warnings, effectInstances>>
           ELSE /\ textFilters' = Append(textFilters, buildFilter(overlay, videoHeight))
                /\ effectInstances' = CachedEffects(effectInstances, overlay)
                /\ UNCHANGED <<pc, outcome, warnings>>
    /\ UNCHANGED <<fontInstances,
                   config, video, fontFiles, videoHeight, fontOverlays, idx,
                   processed, origin, vf, ffmpegRuns>>

\* One call of the callback of processedOverlays.map(...); what it throws
\* is caught by processVideo, which exits.
BuildFilter ==
    /\ pc = "filters"
    /\ Len(textFilters) < Len(processed)
    /\ LET overlay == processed[Len(textFilters) + 1]
       IN  IF buildFilterThrows(overlay)
           THEN /\ Exit("TypeError")
                /\ UNCHANGED <<textFilters, warnings, effectInstances>>
           ELSE /\ textFilters' = Append(textFilters, buildFilter(overlay, videoHeight))
                /\ effectInstances' = CachedEffects(effectInstances, overlay)
                /\ warnings' = warnings + (IF AnimationWarns(overlay) THEN 1 ELSE 0)
                /\ UNCHANGED <<pc, outcome>>
    /\ UNCHANGED <<fontInstances,
                   config, video, fontFiles, videoHeight, fontOverlays, idx,
                   processed, origin, vf, ffmpegRuns>>

Separator == Frag(",", "")

\* textFilters.join(",")
RECURSIVE join(_)
join(filters) ==
    IF filters = <<>> THEN <<>>
    ELSE IF Len(filters) = 1 THEN Head(filters)
    ELSE Head(filters) \o <<Separator>> \o join(Tail(filters))

\* The command is built and runFFmpeg(args) spawns ffmpeg.
RunFFmpeg ==
    /\ pc = "filters"
    /\ Len(textFilters) = Len(processed)
    /\ vf' = join(textFilters)
    /\ ffmpegRuns' = ffmpegRuns + 1
    /\ pc' = "running"
    /\ UNCHANGED <<effectInstances, fontInstances,
                   config, video, fontFiles, videoHeight, fontOverlays, idx,
                   processed, origin, textFilters, warnings, outcome>>

\* ffmpeg closes with code 0 and the success message is printed.
FFmpegSucceeds ==
    /\ pc = "running"
    /\ pc' = "done"
    /\ outcome' = "success"
    /\ UNCHANGED <<effectInstances, fontInstances,
                   config, video, fontFiles, videoHeight, fontOverlays, idx,
                   processed, origin, textFilters, vf, ffmpegRuns, warnings>>

\* Mutant: a failed ffmpeg is run again.
FFmpegFails_Retry ==
    /\ pc = "running"
    /\ pc' = "filters"
    /\ UNCHANGED <<effectInstances, fontInstances,
                   config, video, fontFiles, videoHeight, fontOverlays, idx,
                   processed, origin, textFilters, vf, ffmpegRuns, warnings,
                   outcome>>

\* ffmpeg closes with another code, or cannot be spawned.
FFmpegFails ==
    /\ pc = "running"
    /\ Exit("RenderingEngineFailure")
    /\ UNCHANGED <<effectInstances, fontInstances,
                   config, video, fontFiles, videoHeight, fontOverlays, idx,
                   processed, origin, textFilters, vf, ffmpegRuns, warnings>>

Next ==
    \/ ProbeResolve
    \/ ProbeReject
    \/ ValidateOk
    \/ ValidateExit
    \/ ProcessFonts
    \/ ExpandOverlay
    \/ NoOverlays
    \/ DisplayConfiguration
    \/ BuildFilter
    \/ RunFFmpeg
    \/ FFmpegSucceeds
    \/ FFmpegFails

Spec == Init /\ [][Next]_vars

(***************************************************************************)
(* Properties.                                                              *)
(***************************************************************************)
\* Atomic overlays and built filters exist only after validation passed.
Atomic == 1..Len(processed)
Built == 1..Len(textFilters)

\* The input overlay (as handed to the layout engine) an atomic overlay
\* came from, and its rank among the overlays expanded from that input.
Parent(m) == fontOverlays[origin[m][1]]
Rank(m) == origin[m][2]
AtomsOf(i) == {m \in Atomic : origin[m][1] = i}

\* r is num/den rounded to the nearest integer, halves going up.
IsRoundHalfUp(r, num, den) ==
    /\ 2 * den * r - den <= 2 * num
    /\ 2 * num < 2 * den * r + den

\* The pixel size the specification gives for a responsive size value.
Resolved(v, height) ==
    IF v <= 20
    THEN CHOOSE r \in {(v * height) \div 100, (v * height) \div 100 + 1} :
             IsRoundHalfUp(r, v * height, 100)
    ELSE v

\* The values of the fragments with a given key of a filter.
ValuesOf(filter, k) == {filter[i].val : i \in {j \in 1..Len(filter) : filter[j].key = k}}
CountOf(filter, k) == Cardinality({j \in 1..Len(filter) : filter[j].key = k})

\* The font size a built filter carries, read back as a number (-1 if it
\* is none of the sizes in question).
EmittedFontSize(n) ==
    LET v == processed[n].fontSize
        q == (v * videoHeight) \div 100
        candidates == {r \in {v, q - 1, q, q + 1} :
                          ToString(r) \in ValuesOf(textFilters[n], "fontsize")}
    IN  IF candidates = {} THEN -1 ELSE CHOOSE r \in candidates : TRUE

\* C1: every atomic overlay produced by the layout engine from a validated
\* configuration has startTime strictly less than endTime, textElements that
\* override startTime or endTime included.
C1_AtomicTiming ==
    \A m \in Atomic : processed[m].startTime < processed[m].endTime

\* C2: the font size written into a filter is round(v/100 * H), halves
\* rounded up, for every size value v <= 20 (20 included), and v itself for
\* every v > 20.
C2_FontSizeResolution ==
    \A n \in Built :
        LET v == processed[n].fontSize
        IN  /\ CountOf(textFilters[n], "fontsize") = 1
            /\ IF v <= 20
               THEN \E r \in {(v * videoHeight) \div 100,
                              (v * videoHeight) \div 100 + 1} :
                        /\ IsRoundHalfUp(r, v * videoHeight, 100)
                        /\ ValuesOf(textFilters[n], "fontsize") = {ToString(r)}
               ELSE ValuesOf(textFilters[n], "fontsize") = {ToString(v)}

\* A request whose two overlays carry the sizes 20 and 21, both compiled.
C2_Witness ==
    /\ Len(textFilters) = 2
    /\ processed[1].fontSize = 20
    /\ processed[2].fontSize = 21
    /\ videoHeight = 150
    /\ ValuesOf(textFilters[1], "fontsize") = {"30"}
    /\ ValuesOf(textFilters[2], "fontsize") = {"21"}

\* C3 as stated: for all inputs v1 <= v2 compiled for the same video height,
\* pairs on opposite sides of the threshold included, the size resolved for
\* v1 is not greater than the size resolved for v2.
C3_Monotonic ==
    \A n, m \in Built :
        processed[n].fontSize <= processed[m].fontSize
            => EmittedFontSize(n) <= EmittedFontSize(m)

\* C3 amended: every input maps to exactly one pixel size, and resolution is
\* monotonic among the values <= 20 and among the values > 20.
C3_MonotonicPerSide ==
    \A n, m \in Built :
        /\ CountOf(textFilters[n], "fontsize") = 1
        /\ EmittedFontSize(n) # -1
        /\ ( /\ processed[n].fontSize <= processed[m].fontSize
             /\ (processed[n].fontSize <= 20) = (processed[m].fontSize <= 20) )
            => EmittedFontSize(n) <= EmittedFontSize(m)

\* Two percentage sizes compiled for one video, resolved to different sizes.
C3_Witness ==
    /\ Len(textFilters) = 2
    /\ processed[1].fontSize = 3
    /\ processed[2].fontSize = 19
    /\ EmittedFontSize(1) < EmittedFontSize(2)

\* The inputs of the layout engine expanded so far.
Expanded == 1..idx

HasElements(overlay) ==
    Has(overlay, "textElements") /\ Len(overlay.textElements) > 0

LineBreaks(text) == Cardinality({j \in 1..Len(text) : text[j] = "\n"})

\* A position {x, y} whose y is a percentage or a pixel value.
DeclaresCentreY(overlay) ==
    /\ IsXYObject(overlay.position)
    /\ overlay.position.y.t \in {"pct", "number", "numstr"}

\* C of the specification, in hundredths of a pixel.
CentreY(overlay, height) ==
    IF overlay.position.y.t = "pct" THEN height * overlay.position.y.n
    ELSE overlay.position.y.n

\* C4: an overlay without textElements whose text has n >= 2 lines yields
\* exactly n atomic overlays in line order, and line i (0-based) is placed
\* at Y = C - (n*h)/2 + i*h with h = 1.2 * the resolved parent font size and
\* C the centre-Y of the declared position.
C4_MultiLineY ==
    \A i \in Expanded :
        LET overlay == fontOverlays[i]
            n == LineBreaks(overlay.text) + 1
            h == 120 * Resolved(overlay.fontSize, videoHeight)
        IN  (~HasElements(overlay) /\ n >= 2 /\ DeclaresCentreY(overlay)) =>
                /\ {Rank(m) : m \in AtomsOf(i)} = 1..n
                /\ Cardinality(AtomsOf(i)) = n
                /\ \A m \in AtomsOf(i) :
                       /\ processed[m]._lineIndex = Rank(m) - 1
                       /\ processed[m].text = Trim(Split(overlay.text)[Rank(m)])
                       /\ processed[m].position.y.t = "number"
                       /\ 2 * processed[m].position.y.n =
                              2 * CentreY(overlay, videoHeight) - n * h
                              + 2 * (Rank(m) - 1) * h
                /\ \A m1, m2 \in AtomsOf(i) : m1 < m2 => Rank(m1) < Rank(m2)

\* The third line of a three-line text at 25% of a 1000-high video, font
\* size 6%: 250 - 108 + 2 * 72 = 286.
C4_Witness ==
    \E m \in Atomic :
        /\ ~HasElements(Parent(m))
        /\ LineBreaks(Parent(m).text) = 2
        /\ Parent(m).position = XY(Pct(50), Pct(25))
        /\ Parent(m).fontSize = 6
        /\ Rank(m) = 3
        /\ processed[m].position.y.n = 28600

\* The resolved size of an element: its own fontSize if given, otherwise
\* the parent's.
ElementSize(overlay, el, height) ==
    Resolved(IF "fontSize" \in DOMAIN el THEN el.fontSize ELSE overlay.fontSize,
             height)

UsedLines(overlay) ==
    {overlay.textElements[j].line : j \in 1..Len(overlay.textElements)}

\* 1.2 * the largest resolved size on a line, in hundredths of a pixel.
HeightOfLine(overlay, l, height) ==
    LET sizes == {ElementSize(overlay, overlay.textElements[j], height) :
                  j \in {k \in 1..Len(overlay.textElements) :
                            overlay.textElements[k].line = l}}
    IN  120 * (CHOOSE s \in sizes : \A t \in sizes : t <= s)

RECURSIVE SumHeights(_, _, _)
SumHeights(overlay, lines, height) ==
    IF lines = {} THEN 0
    ELSE LET l == CHOOSE x \in lines : TRUE
         IN  HeightOfLine(overlay, l, height)
             + SumHeights(overlay, lines \ {l}, height)

\* C5: for an overlay with textElements the height of a line is 1.2 * the
\* largest resolved font size on it; the line numbered k is placed at
\* Y = C - (sum of all line heights)/2 + (sum of the heights of the used
\* lines with a smaller number); unused line numbers add nothing; every
\* element gets the Y of its line and the X of the parent. Lines 0 and 1 of
\* size 6 on a 1000-high video centred on 50% are placed at 428 and 500.
C5_ElementLinesY ==
    \A i \in Expanded :
        LET overlay == fontOverlays[i]
            used == UsedLines(overlay)
        IN  (HasElements(overlay) /\ DeclaresCentreY(overlay)) =>
                /\ {Rank(m) : m \in AtomsOf(i)} = 1..Len(overlay.textElements)
                /\ \A m \in AtomsOf(i) :
                       LET el == overlay.textElements[Rank(m)]
                           y == processed[m].position.y
                       IN  /\ y.t = "number"
                           /\ 2 * y.n =
                                  2 * CentreY(overlay, videoHeight)
                                  - SumHeights(overlay, used, videoHeight)
                                  + 2 * SumHeights(overlay,
                                                   {l \in used : l < el.line},
                                                   videoHeight)
                           /\ processed[m].position.x = overlay.position.x
                           /\ ( /\ videoHeight = 1000
                                /\ used = {0, 1}
                                /\ overlay.position.y = Pct(50)
                                /\ overlay.fontSize = 6
                                /\ \A j \in 1..Len(overlay.textElements) :
                                       ~Has(overlay.textElements[j], "fontSize") )
                              => y.n = (IF el.line = 0 THEN 42800 ELSE 50000)

\* The example of the claim, followed by a block whose line 1 is unused:
\* lines 2, 0, 0 with sizes 6%, 30 px and 6%, centred on 300 px.
C5_Witness ==
    /\ Len(processed) = 5
    /\ fontOverlays[1].position.y = Pct(50)
    /\ UsedLines(fontOverlays[1]) = {0, 1}
    /\ processed[1]._lineIndex = 0 /\ processed[1].position.y.n = 42800
    /\ processed[2]._lineIndex = 1 /\ processed[2].position.y.n = 50000
    /\ UsedLines(fontOverlays[2]) = {0, 2}
    /\ processed[3]._lineIndex = 2 /\ processed[3].position.y.n = 30000
    /\ processed[4].fontSize = 30 /\ processed[4].position.y.n = 22800
    /\ processed[5].fontSize = 6 /\ processed[5].position.y.n = 22800

\* The fields of an atomic overlay that parseTextElements computes itself.
ComputedFields ==
    NestedObjects \cup {"position", "textAlign", "_isTextElement",
                        "_originalText", "_elementIndex", "_totalElements",
                        "_lineIndex"}

NestedKeys(o, k) == IF Has(o, k) THEN DOMAIN o[k] ELSE {}

\* C6: the atomic overlay of an element starts from all fields of the
\* parent, the fields of the element overwrite them, and each of textOutline,
\* textShadow, textBox and animation is merged key by key: a key the element
\* gives wins, every other key keeps the value of the parent.
C6_ElementMerge ==
    \A i \in Expanded :
        LET overlay == fontOverlays[i]
        IN  HasElements(overlay) =>
                \A m \in AtomsOf(i) :
                    LET el == overlay.textElements[Rank(m)]
                        atom == processed[m]
                    IN  /\ \A k \in DOMAIN overlay \ (DOMAIN el \cup ComputedFields) :
                               k \in DOMAIN atom /\ atom[k] = overlay[k]
                        /\ \A k \in DOMAIN el \ ComputedFields :
                               k \in DOMAIN atom /\ atom[k] = el[k]
                        /\ atom.textAlign =
                               (IF Has(el, "textAlign") THEN el.textAlign
                                ELSE IF Has(overlay, "textAlign")
                                THEN overlay.textAlign ELSE "center")
                        /\ \A k \in NestedObjects :
                               /\ k \in DOMAIN atom
                               /\ DOMAIN atom[k] =
                                      NestedKeys(overlay, k) \cup NestedKeys(el, k)
                               /\ \A f \in NestedKeys(el, k) :
                                      atom[k][f] = el[k][f]
                               /\ \A f \in NestedKeys(overlay, k) \ NestedKeys(el, k) :
                                      atom[k][f] = overlay[k][f]

\* An element that overrides only the colour of an enabled outline of
\* width 2.
C6_Witness ==
    \E m \in Atomic :
        /\ HasElements(Parent(m))
        /\ Has(Parent(m), "textOutline")
        /\ Parent(m).textOutline = [enabled |-> TRUE, color |-> "black", width |-> 2]
        /\ Has(Parent(m).textElements[Rank(m)], "textOutline")
        /\ Parent(m).textElements[Rank(m)].textOutline = [color |-> "red"]
        /\ processed[m].textOutline = [enabled |-> TRUE, color |-> "red", width |-> 2]

\* C7: an overlay with no textElements and no line break in its text
\* yields exactly one atomic overlay, every field of which is that of the
\* input overlay.
C7_SingleLinePassThrough ==
    \A i \in Expanded :
        LET overlay == fontOverlays[i]
        IN  (~HasElements(overlay) /\ LineBreaks(overlay.text) = 0) =>
                /\ Cardinality(AtomsOf(i)) = 1
                /\ \A m \in AtomsOf(i) :
                       /\ processed[m] = overlay
                       /\ \A k \in DOMAIN config[i] :
                              k \in DOMAIN processed[m]
                              /\ processed[m][k] = config[i][k]

\* A text with spaces around it, and no textAlign, passed through as it is.
C7_Witness ==
    /\ Len(processed) = 1
    /\ config[1].text = <<" ", "H", "i", " ">>
    /\ processed[1].text = <<" ", "H", "i", " ">>
    /\ ~Has(processed[1], "textAlign")
    /\ ~Has(processed[1], "_isMultiLine")

\* vf cut at the separators written by join.
RECURSIVE Segments(_, _)
Segments(fragments, cur) ==
    IF fragments = <<>> THEN <<cur>>
    ELSE IF Head(fragments).key = ","
    THEN <<cur>> \o Segments(Tail(fragments), <<>>)
    ELSE Segments(Tail(fragments), Append(cur, Head(fragments)))

\* The text the specification gives the atomic overlay of the given rank.
ExpectedText(overlay, rank) ==
    IF HasElements(overlay) THEN overlay.textElements[rank].text
    ELSE IF LineBreaks(overlay.text) = 0 THEN overlay.text
    ELSE Trim(Split(overlay.text)[rank])

ExpectedCount(overlay) ==
    IF HasElements(overlay) THEN Len(overlay.textElements)
    ELSE LineBreaks(overlay.text) + 1

\* C8: the atomic overlays of input overlay i all precede those of input
\* overlay j > i; those of one overlay stand in the order of declaration of
\* its elements, or of its lines; and the k-th segment of the joined filter
\* expression is the compiled expression of the k-th atomic overlay.
C8_OrderPreserved ==
    /\ \A m1, m2 \in Atomic :
           m1 < m2 => \/ origin[m1][1] < origin[m2][1]
                      \/ origin[m1][1] = origin[m2][1] /\ Rank(m1) < Rank(m2)
    /\ \A i \in Expanded :
           {Rank(m) : m \in AtomsOf(i)} = 1..ExpectedCount(fontOverlays[i])
    /\ \A m \in Atomic :
           /\ processed[m].text = ExpectedText(Parent(m), Rank(m))
           /\ processed[m].fontFamily = Parent(m).fontFamily
           /\ HasElements(Parent(m)) => processed[m]._elementIndex = Rank(m) - 1
           /\ (~HasElements(Parent(m)) /\ LineBreaks(Parent(m).text) > 0)
                  => processed[m]._lineIndex = Rank(m) - 1
    /\ \A n \in Built : textFilters[n] = buildFilter(processed[n], videoHeight)
    /\ pc \in {"running", "done"} =>
           /\ Len(Segments(vf, <<>>)) = Len(processed)
           /\ \A k \in Atomic :
                  Segments(vf, <<>>)[k] = buildFilter(processed[k], videoHeight)

\* Two elements declared on lines 1 and 0, then a text of two lines:
\* four segments.
C8_Witness ==
    /\ pc = "running"
    /\ Len(config) = 2
    /\ Len(processed) = 4
    /\ HasElements(config[1])
    /\ config[1].textElements[1].line = 1
    /\ config[1].textElements[2].line = 0
    /\ processed[1].text = <<"w", "1">>
    /\ processed[2].text = <<"w", "0">>
    /\ processed[3].text = <<"A">>
    /\ processed[4].text = <<"B">>
    /\ Len(Segments(vf, <<>>)) = 4

\* The place of a fragment in the order of the specification: base text,
\* font file, font size, colour, outline, shadow, box, position.
Stage(key) ==
    CASE key = "drawtext=text" -> 0
      [] key = "fontfile"      -> 1
      [] key = "fontsize"      -> 2
      [] key = "fontcolor"     -> 3
      [] key = "borderw"       -> 4
      [] key = "bordercolor"   -> 5
      [] key = "shadowx"       -> 6
      [] key = "shadowy"       -> 7
      [] key = "shadowcolor"   -> 8
      [] key = "box"           -> 9
      [] key = "boxcolor"      -> 10
      [] key = "boxborderw"    -> 11
      [] key = "x"             -> 12
      [] key = "y"             -> 13
      [] OTHER                 -> 14

Enabled(overlay, k) == Has(overlay, k) /\ Truthy(overlay[k], "enabled")

KeysOf(filter) == {filter[j].key : j \in 1..Len(filter)}

\* C9: in every built expression the fragments stand in the order base text,
\* font file, font size, colour, outline (if enabled), shadow (if enabled),
\* box (if enabled), x, y, and last the fragment of the animation step (the
\* visibility gate, followed by the ramp of an enabled effect).
C9_FragmentOrder ==
    \A n \in Built :
        LET filter == textFilters[n]
            overlay == processed[n]
            gates == {j \in 1..Len(filter) : filter[j].key = "enable"}
        IN  /\ filter[1].key = "drawtext=text"
            /\ Cardinality(gates) = 1
            /\ \A e \in gates :
                   /\ \A j1, j2 \in 1..(e - 1) :
                          j1 < j2 => Stage(filter[j1].key) < Stage(filter[j2].key)
                   /\ \A j \in 1..(e - 1) : Stage(filter[j].key) < 14
                   /\ {"fontsize", "x", "y"} \subseteq
                          {filter[j].key : j \in 1..(e - 1)}
                   /\ ("borderw" \in KeysOf(filter)) = Enabled(overlay, "textOutline")
                   /\ ("shadowx" \in KeysOf(filter)) = Enabled(overlay, "textShadow")
                   /\ ("box" \in KeysOf(filter)) = Enabled(overlay, "textBox")
                   /\ e >= Len(filter) - 1
                   /\ e < Len(filter) => filter[Len(filter)].key \in {"alpha", "x", "y"}

\* An expression with every optional fragment: outline, shadow, box and a
\* slide-down ramp after the gate.
C9_Witness ==
    \E n \in Built :
        /\ Len(textFilters[n]) = 16
        /\ {"fontfile", "fontcolor", "borderw", "shadowx", "box", "enable"}
               \subseteq KeysOf(textFilters[n])
        /\ textFilters[n][14].key = "y"
        /\ textFilters[n][15].key = "enable"
        /\ textFilters[n][16].key = "y"

\* The expression handed to the applier named `style` for the n-th atomic
\* overlay: the base text put through the appliers registered before it.
InputOf(style, n) ==
    LET k == CHOOSE j \in 1..Len(styles) : styles[j] = style
    IN  ApplyStyles(SubSeq(styles, 1, k - 1), BaseFilter(processed[n]),
                    processed[n], videoHeight)

OutputOf(style, n) ==
    apply(style, InputOf(style, n), processed[n], videoHeight)

\* The expression once the appliers registered after `style` have run on `f`.
Completed(style, f, n) ==
    LET k == CHOOSE j \in 1..Len(styles) : styles[j] = style
    IN  ApplyStyles(SubSeq(styles, k + 1, Len(styles)), f, processed[n],
                    videoHeight)

NoOp(style, n) ==
    /\ OutputOf(style, n) = InputOf(style, n)
    /\ textFilters[n] = Completed(style, InputOf(style, n), n)

\* C10 as stated: the outline, shadow, box and animation appliers each return
\* their input unchanged when the enabled flag of their object is false or
\* the object is absent.
C10_AllNoOp ==
    \A n \in Built :
        /\ ~Enabled(processed[n], "textOutline") => NoOp("OutlineStyle", n)
        /\ ~Enabled(processed[n], "textShadow") => NoOp("ShadowStyle", n)
        /\ ~Enabled(processed[n], "textBox") => NoOp("BoxStyle", n)
        /\ ~Enabled(processed[n], "animation") => NoOp("AnimationStyle", n)

\* C10 amended: the outline, shadow and box appliers return their input
\* unchanged when their flag is false or their object absent; the animation
\* applier then appends the plain visibility gate, and nothing else.
C10_FlaggedAppliers ==
    \A n \in Built :
        LET overlay == processed[n]
            gate == [key |-> "enable",
                     val |-> "'between(t," \o NumStr(overlay.startTime) \o ","
                             \o NumStr(overlay.endTime) \o ")'"]
        IN  /\ ~Enabled(overlay, "textOutline") => NoOp("OutlineStyle", n)
            /\ ~Enabled(overlay, "textShadow") => NoOp("ShadowStyle", n)
            /\ ~Enabled(overlay, "textBox") => NoOp("BoxStyle", n)
            /\ ~Enabled(overlay, "animation") =>
                   /\ OutputOf("AnimationStyle", n)
                          = Append(InputOf("AnimationStyle", n), gate)
                   /\ textFilters[n] = Append(InputOf("AnimationStyle", n), gate)

\* One request with an overlay that has no textOutline, textShadow, textBox
\* or animation at all, and one whose four objects are there but disabled.
C10_Witness ==
    /\ Len(textFilters) = 2
    /\ DOMAIN processed[1] \cap NestedObjects = {}
    /\ NestedObjects \subseteq DOMAIN processed[2]
    /\ \A k \in NestedObjects : ~Enabled(processed[2], k)
    /\ Len(textFilters[1]) = 7
    /\ Len(textFilters[2]) = 7

\* enable='between(t,start,end)' as the specification writes it for an
\* atomic overlay.
PlainGate(overlay) ==
    [key |-> "enable",
     val |-> "'between(t," \o NumStr(overlay.startTime) \o ","
             \o NumStr(overlay.endTime) \o ")'"]

\* The animation of an overlay is absent, disabled, enabled with one of the
\* eight variants, or enabled with a type that is none of them.
AnimationState(overlay) ==
    IF ~Has(overlay, "animation") THEN "absent"
    ELSE IF ~Truthy(overlay.animation, "enabled") THEN "disabled"
    ELSE IF ~Has(overlay.animation, "type") \/ overlay.animation.type = ""
    THEN "untyped"
    ELSE IF overlay.animation.type \in EffectTypes THEN "effect"
    ELSE "unknown"

\* C11: every built expression holds exactly one visibility gate
\* enable='between(t,start,end)', written from the startTime and endTime of
\* its own atomic overlay, whether the animation is absent, disabled, enabled
\* with one of the eight variants or enabled with an unknown variant.
C11_OneVisibilityGate ==
    \A n \in Built :
        LET gates == {j \in 1..Len(textFilters[n]) :
                         textFilters[n][j].key = "enable"}
        IN  /\ Cardinality(gates) = 1
            /\ \A j \in gates : textFilters[n][j] = PlainGate(processed[n])

\* One request compiled to two expressions: an overlay with an enabled
\* effect and one whose animation is disabled, each with its gate.
C11_Witness ==
    /\ Len(textFilters) = 2
    /\ AnimationState(processed[1]) = "effect"
    /\ AnimationState(processed[2]) = "disabled"
    /\ \A n \in Built : PlainGate(processed[n]) \in
           {textFilters[n][j] : j \in 1..Len(textFilters[n])}

\* C12: for each of the eight effect variants named in animation.type, an
\* animation whose enabled flag is false makes the animation step write the
\* plain visibility gate and no alpha, x or y ramp.
C12_DisabledAnimation ==
    \A n \in Built :
        LET overlay == processed[n]
            filter == textFilters[n]
        IN  ( /\ AnimationState(overlay) = "disabled"
              /\ Has(overlay.animation, "type")
              /\ overlay.animation.type \in EffectTypes ) =>
                /\ filter[Len(filter)] = PlainGate(overlay)
                /\ SubSeq(filter, 1, Len(filter) - 1) = InputOf("AnimationStyle", n)
                /\ CountOf(filter, "alpha") = 0
                /\ CountOf(filter, "x") = 1
                /\ CountOf(filter, "y") = 1
                /\ filter[Len(filter) - 1].key = "y"
                /\ filter[Len(filter) - 2].key = "x"
                /\ generateEffectFilter(overlay, getCoordinatesForEffect(overlay))
                       = <<PlainGate(overlay)>>

\* A disabled slide-up with a duration: position, then the gate, no ramp.
C12_Witness ==
    \E n \in Built :
        /\ AnimationState(processed[n]) = "disabled"
        /\ Has(processed[n].animation, "type")
        /\ processed[n].animation.type = "slide-up"
        /\ Has(processed[n].animation, "duration")
        /\ Len(textFilters[n]) = 7
        /\ textFilters[n][6].key = "y"
        /\ textFilters[n][7] = PlainGate(processed[n])

\* The atomic overlays, compiled or waiting, whose enabled animation names
\* a type outside the eight variants.
UnknownEffects == {m \in Atomic : AnimationState(processed[m]) = "unknown"}

\* The next overlay to compile is one whose compilation throws for another
\* reason than its effect (a null position).
NextThrows ==
    /\ Len(textFilters) < Len(processed)
    /\ buildFilterThrows(processed[Len(textFilters) + 1])

\* C13: an enabled animation whose type is none of the eight variants (such
\* as "spin") makes the animation step write the plain visibility gate only
\* and report one warning; it raises no error: the compilation of that
\* overlay and of those after it goes on and the request is not failed.
C13_UnknownEffect ==
    /\ \A n \in Built \cap UnknownEffects :
           /\ textFilters[n] =
                  Append(InputOf("AnimationStyle", n), PlainGate(processed[n]))
           /\ CountOf(textFilters[n], "alpha") = 0
           /\ CountOf(textFilters[n], "x") = 1
           /\ CountOf(textFilters[n], "y") = 1
    /\ warnings = Cardinality(Built \cap UnknownEffects)
    /\ pc = "filters" =>
           /\ outcome = "none"
           /\ (Len(textFilters) < Len(processed) /\ ~NextThrows) =>
                  ENABLED (BuildFilter /\ pc' = "filters" /\ outcome' = "none")
           /\ Len(textFilters) = Len(processed) => ENABLED RunFFmpeg
    /\ (pc \in {"running", "done"} /\ UnknownEffects # {}) =>
           /\ Len(textFilters) = Len(processed)
           /\ outcome \in {"none", "success"}
    /\ (pc = "exited" /\ processed # <<>>) =>
           \/ displayConfigurationThrows(processed) /\ textFilters = <<>>
           \/ ffmpegRuns = 1 /\ Len(textFilters) = Len(processed)
           \/ NextThrows /\ ffmpegRuns = 0

\* A request whose first overlay asks for "spin" and whose second has no
\* effect: both compiled, one warning, ffmpeg ran and the request succeeded.
C13_Witness ==
    /\ pc = "done"
    /\ outcome = "success"
    /\ Len(textFilters) = 2
    /\ UnknownEffects = {1}
    /\ processed[1].animation.type = "spin"
    /\ warnings = 1
    /\ textFilters[1][Len(textFilters[1])] = PlainGate(processed[1])

\* The built expressions whose overlay has an enabled effect of one of the
\* given types.
WithEffect(types) ==
    {n \in Built : /\ AnimationState(processed[n]) = "effect"
                   /\ processed[n].animation.type \in types}

\* The term of the ramp of the n-th expression.
RampTerm(n) == EffectTerm(processed[n], EffectCoordinateTerms(processed[n]))

\* The ramp fragment of the n-th expression is the text of its term, and
\* that text is read back as the term.
RampIsTerm(n) ==
    LET filter == textFilters[n]
    IN  /\ filter[Len(filter)].val = "'" \o Render(RampTerm(n)) \o "'"
        /\ ReadsBack(RampTerm(n))

TermsAreEmitted == \A n \in WithEffect(EffectTypes) : RampIsTerm(n)

\* The instants of the visibility window of an overlay, a quarter of a
\* second apart, in hundredths of a second.
WindowTimes(overlay) ==
    {t \in overlay.startTime..overlay.endTime : t % 25 = 0}

\* Measured sizes <<text_w, text_h>> of the drawn text of an overlay: as
\* high as its resolved font size, and two or six times as wide.
TextSizes(overlay) ==
    LET size == Resolved(overlay.fontSize, videoHeight)
    IN  {<<2 * size, size>>, <<6 * size, size>>}

\* Frames of a 1920-wide video of the probed height at the given instants.
FramesAt(overlay, times) ==
    {[t |-> t, w |-> 1920, h |-> videoHeight, text_w |-> s[1], text_h |-> s[2]] :
     t \in times, s \in TextSizes(overlay)}

Frames(overlay) == FramesAt(overlay, WindowTimes(overlay))

Zero == <<0, 1>>
One == <<1, 1>>

\* C14: for fade-in and zoom-in with duration D > 0 and delay d >= 0 the
\* opacity written is, at every instant t of the visibility window, 0 when
\* t <= start+d, (t-(start+d))/D between start+d and start+d+D, and 1 after
\* that; it is never below 0 or above 1.
C14_EntryOpacity ==
    \A n \in WithEffect({"fade-in", "zoom-in"}) :
        LET overlay == processed[n]
            D == EffectDuration(overlay)
            anchor == overlay.startTime + EffectDelay(overlay)
        IN  (D > 0 /\ EffectDelay(overlay) >= 0) =>
                /\ RampIsTerm(n)
                /\ \A frame \in Frames(overlay) :
                       LET opacity == Eval(RampTerm(n), frame)
                       IN  /\ frame.t <= anchor => opacity = Zero
                           /\ (anchor <= frame.t /\ frame.t <= anchor + D) =>
                                  opacity = Fraction(frame.t - anchor, D)
                           /\ frame.t >= anchor + D => opacity = One
                           /\ ~Less(opacity, Zero)
                           /\ ~Less(One, opacity)

\* C15: for fade-out and zoom-out with duration D > 0 and delay d >= 0 the
\* opacity written is, at every instant t of the visibility window, 1 when
\* t <= end-D-d, (end-d-t)/D between end-D-d and end-d, and 0 after that;
\* it is never below 0 or above 1.
C15_ExitOpacity ==
    \A n \in WithEffect({"fade-out", "zoom-out"}) :
        LET overlay == processed[n]
            D == EffectDuration(overlay)
            rampLast == overlay.endTime - EffectDelay(overlay)
        IN  (D > 0 /\ EffectDelay(overlay) >= 0) =>
                /\ RampIsTerm(n)
                /\ \A frame \in Frames(overlay) :
                       LET opacity == Eval(RampTerm(n), frame)
                       IN  /\ frame.t <= rampLast - D => opacity = One
                           /\ (rampLast - D <= frame.t /\ frame.t <= rampLast) =>
                                  opacity = Fraction(rampLast - frame.t, D)
                           /\ frame.t >= rampLast => opacity = Zero
                           /\ ~Less(opacity, Zero)
                           /\ ~Less(One, opacity)

SlideTypes == {"slide-up", "slide-down", "slide-left", "slide-right"}

\* C16: for every slide variant the interpolation branch of the written
\* coordinate, taken at the end of the ramp t = start+delay+duration, has
\* the value of the static coordinate of the animated axis, and from that
\* instant on the coordinate is the static one.
C16_SlideReachesStatic ==
    \A n \in WithEffect(SlideTypes) :
        LET overlay == processed[n]
            ramp == RampTerm(n)
        IN  /\ RampIsTerm(n)
            /\ \A frame \in FramesAt(overlay, {slideEnd(overlay)}) :
                   Eval(ramp.then, frame) = Eval(ramp.else, frame)
            /\ \A frame \in Frames(overlay) :
                   frame.t >= slideEnd(overlay) =>
                       Eval(ramp, frame) = Eval(ramp.else, frame)

\* C17: at the anchor of the ramp t = start+delay every slide variant has
\* the text wholly off screen: slide-right at x = -text_w, slide-down at
\* y = -text_h, slide-left at x >= w, slide-up at y >= h.
C17_SlideStartsOffScreen ==
    \A n \in WithEffect(SlideTypes) :
        LET overlay == processed[n]
            type == overlay.animation.type
        IN  /\ RampIsTerm(n)
            /\ \A frame \in FramesAt(overlay, {actualStartTime(overlay)}) :
                   LET at == Eval(RampTerm(n), frame)
                   IN  CASE type = "slide-right" -> at = Fraction(-frame.text_w, 1)
                         [] type = "slide-down"  -> at = Fraction(-frame.text_h, 1)
                         [] type = "slide-left"  -> ~Less(at, Fraction(frame.w, 1))
                         [] type = "slide-up"    -> ~Less(at, Fraction(frame.h, 1))

\* The value of the first fragment of a filter with a given key.
FirstOf(filter, k) ==
    filter[CHOOSE i \in 1..Len(filter) :
               /\ filter[i].key = k
               /\ \A j \in 1..(i - 1) : filter[j].key # k].val

IsNumeric(value) == value.t \in {"pct", "number", "numstr"}

\* C18: for an {x, y} position with a percentage or pixel x, the x written
\* is base for left alignment, base-text_w for right alignment and
\* base-text_w/2 for centre or unspecified alignment, where base is w*pct
\* for a percentage and the pixel value otherwise: the same adjustment for
\* both kinds.
C18_XAlignment ==
    \A n \in Built :
        LET overlay == processed[n]
            position == overlay.position
        IN  (IsXYObject(position) /\ IsNumeric(position.x)) =>
                LET base == IF position.x.t = "pct"
                            THEN "w*" \o NumStr(position.x.n)
                            ELSE NumStr(position.x.n)
                    textAlign == IF Has(overlay, "textAlign")
                                 THEN overlay.textAlign ELSE "unspecified"
                IN  /\ textAlign \in Alignments \cup {"unspecified"}
                    /\ textAlign = "left" =>
                           FirstOf(textFilters[n], "x") = base
                    /\ textAlign = "right" =>
                           FirstOf(textFilters[n], "x") = base \o "-text_w"
                    /\ textAlign \in {"center", "unspecified"} =>
                           FirstOf(textFilters[n], "x") = base \o "-text_w/2"

\* A request compiled for a right-aligned overlay at x 100 and a
\* left-aligned overlay at x 25%.
C18_Witness ==
    /\ Len(textFilters) = 2
    /\ \A n \in Built : Has(processed[n], "textAlign")
    /\ processed[1].textAlign = "right"
    /\ processed[1].position = XY(Px(100), Pct(75))
    /\ FirstOf(textFilters[1], "x") = "100-text_w"
    /\ processed[2].textAlign = "left"
    /\ processed[2].position = XY(Pct(25), Px(300))
    /\ FirstOf(textFilters[2], "x") = "w*0.25"

\* C19: for an {x, y} position with a percentage y, the y written is
\* h*pct-text_h/2 whatever the text alignment; fontSize 10 at 50%/50% on a
\* 1080-high video is written as font size 108 and y h*0.5-text_h/2.
C19_YPercentage ==
    \A n \in Built :
        LET overlay == processed[n]
            position == overlay.position
        IN  /\ (IsXYObject(position) /\ position.y.t = "pct") =>
                   FirstOf(textFilters[n], "y") =
                       "h*" \o NumStr(position.y.n) \o "-text_h/2"
            /\ (/\ overlay.fontSize = 10
                /\ position = XY(Pct(50), Pct(50))
                /\ videoHeight = 1080) =>
                   /\ ValuesOf(textFilters[n], "fontsize") = {"108"}
                   /\ FirstOf(textFilters[n], "y") = "h*0.5-text_h/2"

\* The example of the claim compiled for a left-aligned overlay.
C19_Witness ==
    \E n \in Built :
        /\ processed[n].fontSize = 10
        /\ processed[n].position = XY(Pct(50), Pct(50))
        /\ Has(processed[n], "textAlign")
        /\ processed[n].textAlign = "left"
        /\ videoHeight = 1080
        /\ ValuesOf(textFilters[n], "fontsize") = {"108"}
        /\ FirstOf(textFilters[n], "x") = "w*0.5"
        /\ FirstOf(textFilters[n], "y") = "h*0.5-text_h/2"

\* A position that is neither a percentage/pixel pair nor a preset name.
Malformed(position) ==
    CASE position.t = "null"   -> TRUE
      [] position.t = "string" -> position.s \notin PresetNames
      [] position.t = "object" ->
             \/ ~Has(position, "x")
             \/ ~Has(position, "y")
             \/ ~IsNumeric(position.x)
             \/ ~IsNumeric(position.y)

\* C20: a malformed position (unknown preset name, missing axis,
\* non-numeric axis value, null) raises no error, so the compilation of its
\* overlay goes on, and the coordinates written are the full centre
\* (w-text_w)/2 and (h-text_h)/2.
C20_MalformedPosition ==
    /\ \A n \in Built :
           Malformed(processed[n].position) =>
               /\ FirstOf(textFilters[n], "x") = "(w-text_w)/2"
               /\ FirstOf(textFilters[n], "y") = "(h-text_h)/2"
    /\ (/\ pc = "filters"
        /\ Len(textFilters) < Len(processed)
        /\ Malformed(processed[Len(textFilters) + 1].position)) =>
           ENABLED (BuildFilter /\ pc' = "filters" /\ outcome' = "none")

\* The expression a fresh process, whose effect cache is empty, builds for
\* the n-th atomic overlay.
FreshFilter(n) ==
    AnimationStyleIn(EmptyObject, InputOf("AnimationStyle", n), processed[n],
                     videoHeight)

\* C21: the compilation is deterministic. Two equal atomic overlays compiled
\* in one process, whatever was compiled in between, have equal expressions;
\* every expression is the one a fresh process builds; every font path is
\* that of a fresh instance of the font of the overlay: the effect and font
\* caches never change the output.
C21_Deterministic ==
    /\ \A n, m \in Built :
           processed[n] = processed[m] => textFilters[n] = textFilters[m]
    /\ \A n \in Built : textFilters[n] = FreshFilter(n)
    /\ \A i \in DOMAIN fontOverlays :
           fontOverlays[i].fontPath = getFullPath(config[i].fontFamily)
    /\ \A n \in Built :
           Has(processed[n], "fontPath") =>
               ValuesOf(textFilters[n], "fontfile") =
                   {"'" \o getFullPath(processed[n].fontFamily) \o "'"}

\* A fade-in on one font compiled before and after a slide-left on another:
\* both caches hold two instances and the two fade-ins are written alike.
C21_Witness ==
    /\ pc = "done"
    /\ Len(textFilters) = 3
    /\ processed[1] = processed[3]
    /\ processed[1].animation.type = "fade-in"
    /\ processed[2].animation.type = "slide-left"
    /\ processed[1].fontFamily = "cookie"
    /\ processed[2].fontFamily = "fjalla-one"
    /\ DOMAIN effectInstances = {"fade-in", "slide-left"}
    /\ DOMAIN fontInstances = {"cookie", "fjalla-one"}
    /\ textFilters[1] = textFilters[3]
    /\ textFilters[1] # textFilters[2]
    /\ ValuesOf(textFilters[3], "alpha") = {"'if(lt(t,0.5),(t-0)/0.5,1)'"}
    /\ ValuesOf(textFilters[3], "fontfile") = {"'sources/Cookie-Regular.ttf'"}

\* The reasons a request is ended for before any expression is built.
EarlyFailures ==
    {"UnresolvableDimensions", "UnresolvableFont", "InvalidTiming",
     "InvalidFontSize"}

\* C22: ffmpeg is invoked only after the probe succeeded, every overlay of
\* the configuration has a resolvable font, startTime < endTime and
\* fontSize > 0, and an expression was built for every atomic overlay, all
\* of them handed over; a request ended by the probe, the validation or the
\* font resolution never invokes it.
C22_RenderAfterAllBuilt ==
    /\ ffmpegRuns > 0 =>
           /\ video.ok
           /\ videoHeight = video.height
           /\ \A i \in DOMAIN config :
                  /\ config[i].fontFamily \in FontTypes \cap fontFiles
                  /\ config[i].startTime < config[i].endTime
                  /\ config[i].fontSize > 0
           /\ Len(fontOverlays) = Len(config)
           /\ idx = Len(config)
           /\ processed # <<>>
           /\ Len(textFilters) = Len(processed)
           /\ \A n \in Built : textFilters[n] = FreshFilter(n)
           /\ vf = join(textFilters)
    /\ outcome \in EarlyFailures => ffmpegRuns = 0 /\ textFilters = <<>> /\ vf = <<>>
    /\ pc \in {"probe", "validate", "fonts", "layout", "filters"} => ffmpegRuns = 0

\* ffmpeg running on the expressions of the two lines of one valid overlay.
C22_Witness ==
    /\ pc = "running"
    /\ ffmpegRuns = 1
    /\ Len(config) = 1
    /\ Len(processed) = 2
    /\ Len(textFilters) = 2
    /\ Truthy(processed[2], "_isMultiLine")
    /\ vf = textFilters[1] \o <<Separator>> \o textFilters[2]

\* C23: once ffmpeg has closed with a non-zero code the request has ended in
\* failure and stays so, the success message being never reported; ffmpeg
\* is invoked at most once in a request, never again after a failure.
C23_FailureIsFinal ==
    /\ [](ffmpegRuns <= 1)
    /\ [](outcome = "RenderingEngineFailure" => pc = "exited" /\ ffmpegRuns = 1)
    /\ [](outcome = "success" => pc = "done" /\ ffmpegRuns = 1)
    /\ [][pc = "running" => pc' \in {"done", "exited"}]_vars
    /\ [][outcome = "RenderingEngineFailure" =>
              outcome' = "RenderingEngineFailure" /\ ffmpegRuns' = ffmpegRuns]_vars

\* A request whose only ffmpeg run failed.
C23_Witness ==
    /\ pc = "exited"
    /\ outcome = "RenderingEngineFailure"
    /\ ffmpegRuns = 1
    /\ Len(textFilters) = Len(processed)
    /\ vf = join(textFilters)
    /\ vf # <<>>

\* The provenance fields of an atomic overlay, and the overlay without them.
Provenance ==
    {"_isMultiLine", "_isTextElement", "_originalText", "_lineIndex",
     "_totalLines", "_elementIndex", "_totalElements"}

StripProvenance(overlay) == [f \in DOMAIN overlay \ Provenance |-> overlay[f]]

\* Other provenance an atomic overlay could carry.
OtherProvenance ==
    {EmptyObject,
     [_isMultiLine |-> TRUE, _originalText |-> <<"x", "\n", "y">>,
      _lineIndex |-> 1, _totalLines |-> 2],
     [_isTextElement |-> TRUE, _originalText |-> <<"z">>, _elementIndex |-> 2,
      _totalElements |-> 3, _lineIndex |-> 0]}

\* C24: the provenance fields never reach the expression: two atomic
\* overlays that differ in them only have the same expression, and the
\* expression of an atomic overlay is the one built for it without them or
\* with others.
C24_ProvenanceIgnored ==
    /\ \A n, m \in Built :
           StripProvenance(processed[n]) = StripProvenance(processed[m]) =>
               textFilters[n] = textFilters[m]
    /\ \A n \in Built :
           \A p \in OtherProvenance :
               textFilters[n] =
                   buildFilter(Spread(StripProvenance(processed[n]), p),
                               videoHeight)

\* Two word elements of one line compiled: they differ in _elementIndex
\* only and are written alike.
C24_Witness ==
    \E n, m \in Built :
        /\ Truthy(processed[n], "_isTextElement")
        /\ Truthy(processed[m], "_isTextElement")
        /\ processed[n]._elementIndex # processed[m]._elementIndex
        /\ StripProvenance(processed[n]) = StripProvenance(processed[m])
        /\ textFilters[n] = textFilters[m]

\* C25: no atomic overlay produced by the layout engine has a line break in
\* its text, be it a line split from a multi-line text or a word element.
C25_SingleLineText ==
    \A m \in Atomic :
        \A k \in DOMAIN processed[m].text : processed[m].text[k] # "\n"

\* A character as the renderer must read it: a quote or a colon behind a
\* backslash, any other character as it is.
EscapedChar(c) == IF c \in {"'", ":"} THEN "\\" \o c ELSE c

\* C26: the text between the quotes of the base drawtext expression is the
\* overlay text, character by character and in order, with a backslash put
\* before every single quote and every colon and nothing else changed; it
\* is the first fragment, written before any applier has added its own.
C26_TextEscaped ==
    \A n \in Built :
        LET text == processed[n].text
        IN  /\ textFilters[n][1] =
                   Frag("drawtext=text",
                        "'" \o Concat([k \in DOMAIN text |-> EscapedChar(text[k])])
                            \o "'")
            /\ CountOf(textFilters[n], "drawtext=text") = 1
            /\ InputOf(styles[1], n) = <<textFilters[n][1]>>

\* The text b': compiled.
C26_Witness ==
    \E n \in Built :
        /\ processed[n].text = <<"b", "'", ":">>
        /\ textFilters[n][1].val = "'b\\'\\:'"
        /\ Len(textFilters[n]) > 1

\* The coordinates the position step wrote for the n-th atomic overlay.
EmittedCoordinates(n) ==
    <<FirstOf(textFilters[n], "x"), FirstOf(textFilters[n], "y")>>

\* A percentage/pixel pair or a preset name.
Accepted(position) ==
    \/ position.t = "string" /\ position.s \in PresetNames
    \/ IsXYObject(position) /\ IsNumeric(position.x) /\ IsNumeric(position.y)

\* C27: for every accepted form of position the static coordinates the
\* animation step hands to an enabled effect are those the position step
\* wrote, so that the expression is the one the effect builds from the
\* written x and y: a slide settles where the text is drawn without it.
C27_EffectCoordinates ==
    \A n \in Built :
        LET overlay == processed[n]
        IN  (AnimationState(overlay) = "effect" /\ Accepted(overlay.position)) =>
                /\ getCoordinatesForEffect(overlay) = EmittedCoordinates(n)
                /\ textFilters[n] =
                       InputOf("AnimationStyle", n)
                       \o generateFilter(overlay, EmittedCoordinates(n))

\* The atomic overlays a multi-line or word-element overlay was expanded to.
ExpandedAtoms == {n \in Built : IsExpanded(processed[n])}

\* C28: for every multi-line or word-element overlay declared at a
\* percentage/pixel pair or at a preset, the y written for each of its
\* atomic overlays is the number the layout engine assigned to its line, so
\* that two of them on different lines are written at different y.
C28_LineYEmitted ==
    /\ \A n \in ExpandedAtoms :
           Accepted(Parent(n).position) =>
               /\ processed[n].position.y.t = "number"
               /\ FirstOf(textFilters[n], "y") = NumStr(processed[n].position.y.n)
    /\ \A n, m \in ExpandedAtoms :
           (/\ origin[n][1] = origin[m][1]
            /\ Accepted(Parent(n).position)
            /\ processed[n]._lineIndex # processed[m]._lineIndex) =>
               FirstOf(textFilters[n], "y") # FirstOf(textFilters[m], "y")

\* C29: every expression compiled from a validated configuration carries a
\* font size of at least 1 pixel, those of word elements with their own
\* fontSize included.
C29_FontSizePositive ==
    \A n \in Built : EmittedFontSize(n) >= 1

ExitTypes == {"fade-out", "zoom-out"}

\* C30: the ramp of every enabled effect of a validated configuration lies
\* inside the visibility window: start + delay + duration <= end for entry
\* and slide effects, end - duration - delay >= start for exit effects.
C30_RampInsideWindow ==
    \A n \in WithEffect(EffectTypes) :
        LET overlay == processed[n]
            ramp == EffectDelay(overlay) + EffectDuration(overlay)
        IN  IF overlay.animation.type \in ExitTypes
            THEN overlay.endTime - ramp >= overlay.startTime
            ELSE overlay.startTime + ramp <= overlay.endTime

====
